---- MODULE Spec2Model ----
(***************************************************************************)
(* The multi-agent repair controller (controller.py) with its DevOps       *)
(* gateway (devops_agent.py) and stage invoker (agent_caller.py).          *)
(*                                                                         *)
(* Strings are modelled as sequences of tokens: the empty string is <<>>,  *)
(* concatenation is \o, and an f-string is the sequence of its literal     *)
(* parts and its interpolated values.  Python's None is the token "None".  *)
(***************************************************************************)
EXTENDS Integers, Sequences, FiniteSets, TLC

\* ---------------------------------------------------------------- constants

MAX_ITERS == 10

\* defined next to MAX_ITERS; no statement of the repository reads it
MAX_REVIEWER_RETRIES == 3

\* check_runaway_protection(max_commits=7)
MAX_AGENT_COMMITS == 7

\* count_agent_commits reads `git log -10`
COMMIT_WINDOW == 10

\* is_repeating_strategy(..., window=3) as called by main
REPEAT_WINDOW == 3

\* feature_controller.py, main
MAX_CLARIFICATION_ROUNDS == 3

\* ------------------------------------------------------------------- bounds

\* longest list of checks a statusCheckRollup answer holds
MaxChecks == 1

\* longest strategy history explored for is_repeating_strategy on its own
MaxHistory == 5

\* longest changeset explored for apply_changes on its own
MaxFiles == 2

\* the clock ticks this many times in a second
TicksPerSecond == 2

\* the last tick of the clock
MaxNow == 3

\* most commits one of two concurrent runs pushes
MaxPushes == 2

\* ------------------------------------------------------------ input domains

\* Python's None where a number or a name is expected
None == "None"

\* Python's None where a string is expected
NoneStr == <<"None">>

\* the working tree: two python files in the repository root
Paths == {"a.py", "test_a.py"}

\* the order in which Path(".").glob("*.py") yields the files, which is also
\* the insertion order of the repo_state dict
PathOrder == <<"a.py", "test_a.py">>

\* the content of a file is a sequence of characters; "LF" and "CR" stand for
\* the line feed and the carriage return, any other token for a run of
\* characters without line ends
InitialDisk == [p \in Paths |-> IF p = "a.py" THEN <<"a0">> ELSE <<"t0">>]

\* what the Planner stage may answer (PLANNER_SCHEMA)
PlannerOutputs ==
    { [analysis |-> "an1", files_to_modify |-> <<"a.py">>, strategy |-> "s1",
       needs_new_tests |-> FALSE, coverage_gaps |-> <<>>,
       should_strategy_change |-> FALSE],
      [analysis |-> "an1", files_to_modify |-> <<"a.py">>, strategy |-> "s1",
       needs_new_tests |-> TRUE, coverage_gaps |-> <<"gap1">>,
       should_strategy_change |-> FALSE],
      [analysis |-> "an2", files_to_modify |-> <<"a.py">>, strategy |-> "s2",
       needs_new_tests |-> FALSE, coverage_gaps |-> <<>>,
       should_strategy_change |-> TRUE] }

\* what the Coder stage may answer (CODER_SCHEMA)
CoderOutputs ==
    { [files |-> <<[path |-> "a.py", content |-> <<"a1">>]>>, commit_message |-> "fix a"] }

\* what the Tester stage may answer (TESTER_SCHEMA): a test file, or a file
\* at the path of a code file
TesterOutputs ==
    { [files |-> <<[path |-> "test_a.py", content |-> <<"t1">>]>>, test_strategy |-> "ts"],
      [files |-> <<[path |-> "a.py", content |-> <<"t1">>]>>, test_strategy |-> "ts"] }

\* what the Reviewer stage may answer (REVIEWER_SCHEMA)
ReviewerOutputs ==
    { [approved |-> TRUE, issues |-> <<>>, feedback |-> "lgtm"],
      [approved |-> FALSE, issues |-> <<"i1">>, feedback |-> "fb1"],
      [approved |-> FALSE, issues |-> <<"i2">>, feedback |-> "fb2"] }

\* (exit code, stdout) of pytest
TestResults == { <<0, <<"passed">> >>, <<1, <<"FAILED">> >> }

\* conclusions a check of statusCheckRollup may report; None while it runs
Conclusions == {"SUCCESS", "FAILURE", None}

SeqsUpTo(S, n) == UNION { [1..k -> S] : k \in 0..n }

CheckLists ==
    { [i \in 1..Len(cs) |-> [name |-> ToString(i), conclusion |-> cs[i]]] :
        cs \in SeqsUpTo(Conclusions, MaxChecks) }

\* the paths whose write the system may refuse during one apply_changes
\* (PermissionError, disk full): none, or one of the files
RefusedWrites == { {} } \cup { {p} : p \in Paths }

\* answers of `gh pr view --json number` for the current branch
PrNumbers == {"42"}

\* answers of get_failed_test_logs: None, an empty log, a log
FetchedLogs == {NoneStr, <<>>, <<"ci test log">>}

\* a local variable of main that no statement has assigned yet
Unbound == -1
NoPlan == [analysis |-> "", files_to_modify |-> <<>>, strategy |-> "",
           needs_new_tests |-> FALSE, coverage_gaps |-> <<>>,
           should_strategy_change |-> FALSE]
NoChanges == [files |-> <<>>, commit_message |-> ""]
NoReview == [approved |-> FALSE, issues |-> <<>>, feedback |-> ""]
NoStatus == [bound |-> FALSE, all_passed |-> FALSE, checks |-> <<>>]
NoRequirements == [gherkin_scenarios |-> <<>>, needs_clarification |-> FALSE,
                   clarification_questions |-> <<>>, requirements_summary |-> ""]
NoTechPlan == [implementation_plan |-> "", files_to_modify |-> <<>>, strategy |-> "",
               needs_new_tests |-> FALSE, test_strategy |-> ""]
NoResult == [returncode |-> 1, stdout |-> [kind |-> "invalid", doc |-> << >>]]
NoCoderCall == [called |-> FALSE, repository_files |-> << >>, prompt |-> <<>>]
NoCall == [called |-> FALSE, test_result |-> <<>>, ci_logs |-> <<>>,
           previous_attempt_failed |-> FALSE, failure_reason |-> NoneStr]

\* ----------------------------------------------------- pure helper functions

\* Python truthiness of an Optional[str]
Truthy(s) == s # NoneStr /\ s # <<>>

\* the slice forgotten: the whole history
LastRecords_all(iteration_history, window) == iteration_history

\* iteration_history[-window:] : the last `window` records, or all of them
\* when there are fewer
LastRecords(iteration_history, window) ==
    IF Len(iteration_history) <= window
    THEN iteration_history
    ELSE SubSeq(iteration_history, Len(iteration_history) - window + 1,
                Len(iteration_history))

\* is_repeating_strategy with `<= 2` for `== 1`
is_repeating_strategy_two(iteration_history, window) ==
    IF Len(iteration_history) < window
    THEN FALSE
    ELSE LET recent == IF Len(iteration_history) <= window
                       THEN iteration_history
                       ELSE SubSeq(iteration_history,
                                   Len(iteration_history) - window + 1,
                                   Len(iteration_history))
         IN  Cardinality({ recent[i].strategy : i \in 1..Len(recent) }) <= 2

is_repeating_strategy(iteration_history, window) ==
    IF Len(iteration_history) < window
    THEN FALSE
    ELSE LET recent == LastRecords(iteration_history, window)
             recent_strategies == { recent[i].strategy : i \in 1..Len(recent) }
         IN  Cardinality(recent_strategies) = 1

\* fnmatch.fnmatch(path, pattern) on the paths of the model
fnmatch(path, pattern) ==
    CASE pattern = "*.py"      -> path \in {"a.py", "test_a.py", "pkg/b.py", "new/c.py"}
      [] pattern = "test_*.py" -> path \in {"test_a.py"}
      [] pattern = "*_test.py" -> path \in {}
      [] OTHER                 -> FALSE

\* a dict {path: content} is a function on a set of paths
_filter_files(repo_state, patterns) ==
    [ p \in { q \in DOMAIN repo_state :
                \E i \in 1..Len(patterns) : fnmatch(q, patterns[i]) }
        |-> repo_state[p] ]

\* every file of the snapshot handed over, whatever the plan names
_get_specific_files_all(repo_state, file_paths) == repo_state

_get_specific_files(repo_state, file_paths) ==
    [ p \in { q \in DOMAIN repo_state :
                \E i \in 1..Len(file_paths) : file_paths[i] = q }
        |-> repo_state[p] ]

RECURSIVE FormatFrom(_, _)
FormatFrom(files, i) ==
    IF i > Len(PathOrder) THEN <<>>
    ELSE (IF PathOrder[i] \in DOMAIN files
          THEN <<"--- ", PathOrder[i], " ---">> \o files[PathOrder[i]]
          ELSE <<>>) \o FormatFrom(files, i + 1)

_format_files(files) == FormatFrom(files, 1)

\* the loop `for file in modified_code: code_text += ...`
RECURSIVE FormatList(_)
FormatList(file_list) ==
    IF file_list = <<>> THEN <<>>
    ELSE <<"--- ", Head(file_list).path, " ---">> \o Head(file_list).content
         \o FormatList(Tail(file_list))

\* the text of a dict {path: content} whose keys were inserted in the order of
\* file_paths (a path named twice keeps its first place)
RECURSIVE FormatInOrder(_, _, _)
FormatInOrder(files, file_paths, i) ==
    IF i > Len(file_paths) THEN <<>>
    ELSE (IF /\ file_paths[i] \in DOMAIN files
             /\ \A k \in 1..(i - 1) : file_paths[k] # file_paths[i]
          THEN <<"--- ", file_paths[i], " ---">> \o files[file_paths[i]]
          ELSE <<>>) \o FormatInOrder(files, file_paths, i + 1)

\* ", ".join(files_to_modify)
RECURSIVE JoinPaths(_)
JoinPaths(file_paths) ==
    IF file_paths = <<>> THEN <<>>
    ELSE IF Len(file_paths) = 1 THEN <<Head(file_paths)>>
    ELSE <<Head(file_paths), ", ">> \o JoinPaths(Tail(file_paths))

\* _build_coder_prompt; repository_files is the dict call_coder built from
\* repair_plan["files_to_modify"], which gives the order of its keys
_build_coder_prompt(repair_plan, repository_files) ==
    <<"coder.md", "## Repair Plan", "Analysis: ", repair_plan.analysis,
      "Strategy: ", repair_plan.strategy, "Files to modify: ">>
    \o JoinPaths(repair_plan.files_to_modify)
    \o <<"## Repository Files">>
    \o FormatInOrder(repository_files, repair_plan.files_to_modify, 1)
    \o <<"Output your response as raw JSON only">>

\* call_coder up to the call of _call_claude: the files it selects and the
\* prompt it sends
call_coder_call(plan_, repo_state_) ==
    LET filtered_files == _get_specific_files(repo_state_, plan_.files_to_modify)
    IN  [ called |-> TRUE,
          repository_files |-> filtered_files,
          prompt |-> _build_coder_prompt(plan_, filtered_files) ]

\* "\n".join(f"- {gap}" for gap in coverage_gaps)
RECURSIVE JoinGaps(_)
JoinGaps(coverage_gaps) ==
    IF coverage_gaps = <<>> THEN <<>>
    ELSE <<"- ", Head(coverage_gaps)>> \o JoinGaps(Tail(coverage_gaps))

_build_tester_prompt(modified_code, existing_tests, coverage_gaps) ==
    <<"tester.md", "## Modified Code">> \o FormatList(modified_code)
    \o <<"## Existing Tests">> \o _format_files(existing_tests)
    \o <<"## Coverage Gaps">> \o JoinGaps(coverage_gaps)

\* call_tester with the test output added to the prompt
call_tester_prompt_output(st) ==
    _build_tester_prompt(st.changes.files,
                         _filter_files(st.repo_state, <<"test_*.py", "*_test.py">>),
                         st.plan.coverage_gaps)
    \o <<"## Test Output">> \o st.test_output

\* The prompt call_tester sends, as a function of everything the controller
\* holds when it makes the call (st is the controller's state as a record).
call_tester_prompt(st) ==
    _build_tester_prompt(st.changes.files,
                         _filter_files(st.repo_state, <<"test_*.py", "*_test.py">>),
                         st.plan.coverage_gaps)

\* os.linesep of the platform the controller runs on
linesep(platform_) == IF platform_ = "win32" THEN <<"CR", "LF">> ELSE <<"LF">>

\* what a text-mode write puts on disk: every line feed becomes os.linesep
RECURSIVE encode(_, _)
encode(content, platform_) ==
    IF content = <<>> THEN <<>>
    ELSE (IF Head(content) = "LF" THEN linesep(platform_) ELSE <<Head(content)>>)
         \o encode(Tail(content), platform_)

\* what a text-mode read returns (universal newlines): CR LF and a lone CR
\* become a line feed
RECURSIVE read_text(_)
read_text(bytes) ==
    IF bytes = <<>> THEN <<>>
    ELSE IF Head(bytes) = "CR"
         THEN IF Len(bytes) >= 2 /\ bytes[2] = "LF"
              THEN <<"LF">> \o read_text(Tail(Tail(bytes)))
              ELSE <<"LF">> \o read_text(Tail(bytes))
         ELSE <<Head(bytes)>> \o read_text(Tail(bytes))

\* Path(path).parent on the paths of the model
parent(path) ==
    CASE path = "pkg/b.py" -> "pkg"
      [] path = "new/c.py" -> "new"
      [] OTHER             -> "."

\* the directories of a tree: the root, and every directory that holds a file
Dirs(tree) == {"."} \cup { parent(p) : p \in DOMAIN tree }

\* the file opened for appending
write_text_append(tree, path, content, platform_) ==
    [ p \in DOMAIN tree \cup {path} |->
        IF p = path
        THEN (IF path \in DOMAIN tree THEN tree[path] ELSE <<>>)
             \o encode(content, platform_)
        ELSE tree[p] ]

\* Path(path).write_text(content), when the write goes through
write_text(tree, path, content, platform_) ==
    [ p \in DOMAIN tree \cup {path} |->
        IF p = path THEN encode(content, platform_) ELSE tree[p] ]

\* the loop of apply_changes: write each file in list order; the first write
\* that raises (the directory is missing and is not made, or the system
\* refuses the write) ends the loop and leaves what was written before it
RECURSIVE WriteAll(_, _, _, _, _)
WriteAll(tree, files, mkdir, platform_, refused) ==
    IF files = <<>> THEN [tree |-> tree, raised |-> FALSE]
    ELSE IF \/ (~mkdir /\ parent(Head(files).path) \notin Dirs(tree))
            \/ Head(files).path \in refused
         THEN [tree |-> tree, raised |-> TRUE]
         ELSE WriteAll(write_text(tree, Head(files).path, Head(files).content,
                                  platform_),
                       Tail(files), mkdir, platform_, refused)

\* the tree put back as it was when a write raises
apply_changes_rollback(tree, files, platform_, refused) ==
    LET done == WriteAll(tree, files, FALSE, platform_, refused)
    IN  IF done.raised THEN [tree |-> tree, raised |-> TRUE] ELSE done

\* apply_changes of controller.py
apply_changes(tree, files, platform_, refused) ==
    WriteAll(tree, files, FALSE, platform_, refused)

\* apply_changes of feature_controller.py: mkdir(parents=True) before each write
feature_apply_changes(tree, files, platform_, refused) ==
    WriteAll(tree, files, TRUE, platform_, refused)

\* get_pr_status: checks without a conclusion are left out of all()
get_pr_status(checks) ==
    [ bound |-> TRUE,
      all_passed |-> \A i \in 1..Len(checks) :
                        checks[i].conclusion # None => checks[i].conclusion = "SUCCESS",
      checks |-> checks ]

RECURSIVE extract_ci_logs_from(_)
extract_ci_logs_from(checks) ==
    IF checks = <<>> THEN <<>>
    ELSE (IF Head(checks).conclusion \notin {"SUCCESS", None}
          THEN <<Head(checks).name, ": ", Head(checks).conclusion>>
          ELSE <<>>) \o extract_ci_logs_from(Tail(checks))

extract_ci_logs(checks) == <<"CI Checks Failed:">> \o extract_ci_logs_from(checks)

\* the paths of the trees looked at that contain "controller"
ControllerPaths == {"controller.py", "feature_controller.py"}

\* collect_files of controller.py: the *.py files of the repository root,
\* leaving out every path that contains "controller"
collect_files(tree) ==
    [ p \in { q \in DOMAIN tree : /\ parent(q) = "."
                                  /\ fnmatch(q, "*.py")
                                  /\ q \notin ControllerPaths }
        |-> read_text(tree[p]) ]

\* `>` for `>=`
check_runaway_protection_gt(agent_commit_count_, max_commits) ==
    agent_commit_count_ > max_commits

\* check_runaway_protection: does the breaker stop the run?
check_runaway_protection(agent_commit_count_, max_commits) ==
    agent_commit_count_ >= max_commits

\* the feedback left out of the reason
RejectionReason_bare(feedback) == <<"Reviewer rejected">>

\* f"Reviewer rejected: {review['feedback']}"
RejectionReason(feedback) == <<"Reviewer rejected: ", feedback>>

\* the Tester's files left out of the changeset
extend_none(files, test_files) == files

\* changes["files"].extend(test_changes["files"])
extend(files, test_files) == files \o test_files

\* the `and ci_status['checks']` left out
AllChecksPassed_any(status) == status.all_passed

\* `if ci_status['all_passed'] and ci_status['checks']`
AllChecksPassed(status) == status.all_passed /\ status.checks # <<>>

\* the CI signal not looked at
TestsPassed_code(code, logs) == code = 0

\* the `not` left out
TestsPassed_pending(code, logs) == code = 0 /\ logs # <<>>

\* `if test_code == 0 and not ci_logs`
TestsPassed(code, logs) == code = 0 /\ logs = <<>>

\* one iteration too many
LoopContinues_more(iteration_) == iteration_ + 1 <= MAX_ITERS

\* `for iteration in range(MAX_ITERS)`: is there a next iteration after the
\* one numbered `iteration` (Unbound before the first)?
LoopContinues(iteration_) == iteration_ + 1 < MAX_ITERS

\* the fields a stage's schema lists under "required"
RequiredFields(stage) ==
    CASE stage = "planner"  -> {"analysis", "files_to_modify", "strategy",
                                "needs_new_tests", "coverage_gaps",
                                "should_strategy_change"}
      [] stage = "coder"    -> {"files", "commit_message"}
      [] stage = "tester"   -> {"files", "test_strategy"}
      [] stage = "reviewer" -> {"approved", "issues", "feedback"}

\* `raise Exception(message)`: the call hands nothing back
Raise(message) ==
    [raised |-> TRUE, exception |-> "Exception", message |-> message, value |-> << >>]

\* `return value`
Return(value) ==
    [raised |-> FALSE, exception |-> "", message |-> "", value |-> value]

\* _call_claude without the test of the exit status
_call_claude_nostatus(result, stage) ==
    IF result.stdout.kind = "invalid"
    THEN Raise("Invalid JSON from Claude")
    ELSE IF /\ result.stdout.kind = "object"
            /\ "structured_output" \in DOMAIN result.stdout.doc
         THEN Return(result.stdout.doc["structured_output"])
         ELSE Raise("Unexpected response format from Claude")

\* _call_claude after subprocess.run has returned `result`; the schema of the
\* stage goes to the command line and is not looked at again
_call_claude(result, stage) ==
    IF result.returncode # 0
    THEN Raise("Claude call failed")
    ELSE IF result.stdout.kind = "invalid"          \* json.loads raises
         THEN Raise("Invalid JSON from Claude")
         ELSE IF /\ result.stdout.kind = "object"
                 /\ "structured_output" \in DOMAIN result.stdout.doc
              THEN Return(result.stdout.doc["structured_output"])
              ELSE Raise("Unexpected response format from Claude")

\* force only in CI mode
PushForced_ci(is_ci_, first_commit_made_) == is_ci_

\* the branches of `if devops.is_ci_mode(): ... else: if first_commit_made:`
\* that call push_changes(force=True)
PushForced(is_ci_, first_commit_made_) == is_ci_ \/ first_commit_made_

\* what os.environ.get may give for a variable: None when it is not set
EnvValues == {None, "true", "false", "TRUE"}

Environs == [CI : EnvValues, GITHUB_ACTIONS : EnvValues]

\* what `git branch --show-current` may print, stripped: a branch name, or
\* nothing on a detached HEAD
Branches == {"main", "master", "agent-0", ""}

\* the branch create_branch makes: f"agent-{int(time.time())}"
NewBranch == "agent-1"

\* every environment and branch the gateway may be constructed in
AllEnvironments == [environ : Environs, branch : Branches]

\* a developer's checkout of main
LocalEnvironment ==
    [environ |-> [CI |-> None, GITHUB_ACTIONS |-> None], branch |-> "main"]

\* a workflow run on the branch of a pull request
WorkflowEnvironment ==
    [environ |-> [CI |-> "true", GITHUB_ACTIONS |-> "true"], branch |-> "agent-0"]

\* the two environments whole runs are followed in
RunEnvironments == {LocalEnvironment, WorkflowEnvironment}

\* the branch name forgotten
_detect_ci_mode_env(environ_, current_branch_) ==
    environ_.CI = "true" \/ environ_.GITHUB_ACTIONS = "true"

_detect_ci_mode(environ_, current_branch_) ==
    LET in_ci == environ_.CI = "true" \/ environ_.GITHUB_ACTIONS = "true"
        on_feature_branch == current_branch_ \notin {"main", "master"}
    IN  in_ci \/ on_feature_branch

\* APPLY whatever the Reviewer said
AfterReview_apply(review_) == "apply"

\* `if not review["approved"]: ... continue`, else on to Step 7
AfterReview(review_) == IF review_.approved THEN "apply" ELSE "loop"

\* the Tester called whatever the plan says
NeedsNewTests_always(plan_) == TRUE

\* plan.get("needs_new_tests", False)
NeedsNewTests(plan_) ==
    IF "needs_new_tests" \in DOMAIN plan_ THEN plan_.needs_new_tests ELSE FALSE

\* the two reflection arguments left at their defaults
call_planner_call_defaults(test_result, ci_logs_, failed, failure_reason) ==
    [ called |-> TRUE, test_result |-> test_result, ci_logs |-> ci_logs_,
      previous_attempt_failed |-> FALSE, failure_reason |-> NoneStr ]

\* what main passes to call_planner
call_planner_call(test_result, ci_logs_, failed, failure_reason) ==
    [ called |-> TRUE, test_result |-> test_result, ci_logs |-> ci_logs_,
      previous_attempt_failed |-> failed,
      failure_reason |-> failure_reason ]

\* the kind of the first push_changes call of the run, once one more call
\* of the given kind has been made
record_push(first, kind) == IF first = None THEN kind ELSE first

\* the name under which a position's stage call is noted
StageAt(pc_) ==
    CASE pc_ \in {"plan"}                        -> "planner"
      [] pc_ \in {"code", "f_code"}              -> "coder"
      [] pc_ \in {"test", "f_test"}              -> "tester"
      [] pc_ \in {"review"}                      -> "reviewer"
      [] pc_ \in {"f_requirements", "f_clarify"} -> "requirements_gather"
      [] pc_ = "f_criteria"                      -> "acceptance_criteria"
      [] pc_ = "f_design"                        -> "architect_planner"
      [] pc_ = "f_plan"                          -> "technical_planner"

\* the call made again
AfterStageFailure_retry(pc_) == pc_

\* where main is after a stage invocation raised: the exception leaves main
AfterStageFailure(pc_) == "crashed"

Range(seq) == { seq[i] : i \in 1..Len(seq) }
Last(seq) == seq[Len(seq)]
Contains(str, part) == part \in Range(str)

\* -------------------------------------------------------------------- state

VARIABLES
    pc,                       \* position of main()
    is_ci,                    \* DevOpsAgent.is_ci
    environ,                  \* os.environ: the variables CI and GITHUB_ACTIONS
    current_branch,           \* DevOpsAgent.current_branch
    agent_commit_count,       \* local of check_runaway_protection
    pr_number,
    first_commit_made,
    ci_logs,
    iteration_history,
    previous_attempt_failed,
    previous_failure_reason,
    iteration,                \* the loop variable of `for iteration in range(MAX_ITERS)`
    test_code,
    test_output,
    repo_state,
    plan,
    changes,
    review,
    ci_status,
    disk,                     \* the working tree
    iter_ops,                 \* what the current iteration has done so far, in order
    setup_ops,                \* what the set-up before the loop has done, in order
    outcome,                  \* how the loop was left
    final_status,             \* the status the summary prints
    planner_call,             \* arguments of this iteration's call_planner
    tester_prompt,            \* prompt of this iteration's call_tester
    coder_files,              \* the files the Coder returned in this iteration
    coder_call,               \* what call_coder put into its payload in this iteration
    auto_merge,               \* enable_auto_merge was called
    platform,                 \* sys.platform
    first_push,               \* the kind of the first push_changes call of the run
    history_arg,              \* is_repeating_strategy on its own: the argument
    repeating_result,         \* is_repeating_strategy on its own: <<result>>
    claude_result,            \* _call_claude on its own: what subprocess.run returned
    claude_schema,            \* _call_claude on its own: the stage whose schema is passed
    claude_return,            \* _call_claude on its own: <<how the call ended>>
    apply_controller,         \* apply_changes on its own: the module it is taken from
    apply_tree,               \* apply_changes on its own: the file tree before
    apply_files,              \* apply_changes on its own: the changeset
    apply_refused,            \* apply_changes on its own: the writes the system refuses
    apply_result,             \* apply_changes on its own: <<after one call, after two>>
    args,                     \* feature pipeline: the parsed command line
    requirements_output,      \* feature pipeline: the latest requirements result
    clarification_iteration,  \* feature pipeline: clarification rounds so far
    tech_plan,                \* feature pipeline: the implementation plan
    now,                      \* concurrent runs: time.time(), in ticks
    run_pc,                   \* concurrent runs: position of each run's main()
    branch_name,              \* concurrent runs: DevOpsAgent.current_branch of each run
    origin                    \* concurrent runs: the pushes each branch of the remote received

vars == << pc, is_ci, environ, current_branch, agent_commit_count, pr_number, first_commit_made, ci_logs,
           iteration_history, previous_attempt_failed, previous_failure_reason,
           iteration, test_code, test_output, repo_state, plan, changes, review,
           ci_status, disk, iter_ops, setup_ops, outcome, final_status,
           planner_call, tester_prompt, coder_files, coder_call, auto_merge, first_push,
           platform, history_arg, repeating_result,
           claude_result, claude_schema, claude_return,
           apply_controller, apply_tree, apply_files, apply_refused, apply_result,
           args, requirements_output, clarification_iteration, tech_plan,
           now, run_pc, branch_name, origin >>

repeatingVars == << history_arg, repeating_result >>
claudeVars == << claude_result, claude_schema, claude_return >>
applyVars == << apply_controller, apply_tree, apply_files, apply_refused,
               apply_result >>
featureVars == << args, requirements_output, clarification_iteration, tech_plan >>
\* the variables the repair controller does not have
runsVars == << now, run_pc, branch_name, origin >>
unitVars == << repeatingVars, claudeVars, applyVars, featureVars, runsVars >>
\* the variables of the set-up
envVars == << is_ci, environ, current_branch, agent_commit_count, setup_ops >>
\* what the gateway state of the run is made of
gitVars == << pr_number, first_commit_made, auto_merge >>
\* the reflection state
reflVars == << previous_attempt_failed, previous_failure_reason >>
\* the locals of one iteration
stageVars == << plan, changes, review, coder_files, coder_call, tester_prompt,
               planner_call >>
testVars == << test_code, test_output >>

\* everything the controller holds, as one record
\* DevOpsAgent.__init__ in one of the given environments
DevOpsAgent(envs) ==
    \E e \in envs :
        /\ environ = e.environ
        /\ current_branch = e.branch
        /\ is_ci = _detect_ci_mode(environ, current_branch)

\* no concurrent runs are being looked at
RunsIdle ==
    /\ now = 0
    /\ run_pc = << >>
    /\ branch_name = << >>
    /\ origin = << >>

\* the feature pipeline has not started
FeatureIdle ==
    /\ args = [ci_mode |-> FALSE, auto_approve |-> FALSE]
    /\ requirements_output = NoRequirements
    /\ clarification_iteration = 0
    /\ tech_plan = NoTechPlan

\* no apply_changes is being looked at on its own
ApplyIdle ==
    /\ apply_controller = "controller"
    /\ apply_tree = << >>
    /\ apply_files = <<>>
    /\ apply_refused = {}
    /\ apply_result = <<>>

CtlState ==
    [ changes |-> changes, repo_state |-> repo_state, plan |-> plan,
      test_output |-> test_output, ci_logs |-> ci_logs,
      previous_attempt_failed |-> previous_attempt_failed,
      previous_failure_reason |-> previous_failure_reason,
      review |-> review, pr_number |-> pr_number, is_ci |-> is_ci,
      first_commit_made |-> first_commit_made,
      iteration_history |-> iteration_history, ci_status |-> ci_status ]

\* main up to the set-up: the gateway constructed, nothing else done
MainStart(envs) ==
    /\ pc = "init"
    /\ DevOpsAgent(envs)
    /\ agent_commit_count = Unbound
    /\ pr_number = None
    /\ first_commit_made = FALSE
    /\ ci_logs = <<>>
    /\ iteration_history = <<>>
    /\ previous_attempt_failed = FALSE
    /\ previous_failure_reason = NoneStr
    /\ iteration = Unbound
    /\ test_code = Unbound
    /\ test_output = <<>>
    /\ repo_state = << >>
    /\ plan = NoPlan
    /\ changes = NoChanges
    /\ review = NoReview
    /\ ci_status = NoStatus
    /\ disk = InitialDisk
    /\ iter_ops = <<>>
    /\ setup_ops = <<>>
    /\ outcome = "RUNNING"
    /\ final_status = ""
    /\ planner_call = NoCall
    /\ tester_prompt = <<>>
    /\ coder_files = <<>>
    /\ coder_call = NoCoderCall
    /\ auto_merge = FALSE
    /\ first_push = None
    /\ platform = "posix"
    /\ RunsIdle
    /\ history_arg = <<>>
    /\ repeating_result = <<>>
    /\ claude_result = NoResult
    /\ claude_schema = "planner"
    /\ claude_return = <<>>
    /\ ApplyIdle
    /\ FeatureIdle

Init == MainStart(RunEnvironments)

\* ------------------------------------------------------------------ actions

\* main, CI branch of the set-up: devops.check_runaway_protection()
CheckRunaway ==
    /\ pc = "init"
    /\ is_ci
    /\ \E c \in 0..COMMIT_WINDOW :
        /\ agent_commit_count' = c
        /\ IF check_runaway_protection(c, MAX_AGENT_COMMITS)
           THEN pc' = "exited"          \* exit(1)
           ELSE pc' = "ci_setup"
    /\ setup_ops' = Append(setup_ops, "check_runaway")
    /\ UNCHANGED << unitVars, first_push, platform, is_ci, environ, current_branch,
                    gitVars, ci_logs, iteration_history, reflVars, iteration,
                    testVars, repo_state, stageVars, ci_status, disk, iter_ops,
                    outcome, final_status >>

\* main, CI branch of the set-up after the breaker: configure_git,
\* get_pr_number, and the fetch of the failed run's logs
CISetup ==
    /\ pc = "ci_setup"
    /\ agent_commit_count' = Unbound    \* check_runaway_protection has returned
    /\ \E n \in PrNumbers \cup {None} : pr_number' = n
    /\ first_commit_made' = TRUE
    /\ \E initial_ci_logs \in FetchedLogs :
        ci_logs' = IF Truthy(initial_ci_logs) THEN initial_ci_logs ELSE <<>>
    /\ setup_ops' = setup_ops \o <<"configure_git", "get_pr_number", "get_failed_test_logs">>
    /\ pc' = "loop"
    /\ UNCHANGED << unitVars, first_push, platform, is_ci, environ, current_branch,
                    auto_merge, iteration_history, reflVars, iteration,
                    testVars, repo_state, stageVars, ci_status, disk, iter_ops,
                    outcome, final_status >>

\* main, interactive branch of the set-up: devops.create_branch()
LocalSetup ==
    /\ pc = "init"
    /\ ~is_ci
    /\ pr_number' = None
    /\ first_commit_made' = FALSE
    /\ ci_logs' = <<>>
    /\ setup_ops' = Append(setup_ops, "create_branch")
    /\ current_branch' = NewBranch
    /\ pc' = "loop"
    /\ UNCHANGED << unitVars, first_push, platform, is_ci, environ, agent_commit_count,
                    auto_merge, iteration_history,
                    reflVars, iteration, testVars, repo_state, stageVars, ci_status,
                    disk, iter_ops, outcome, final_status >>

\* `for iteration in range(MAX_ITERS)`: the next iteration, or the end of the loop
ForIteration ==
    /\ pc = "loop"
    /\ IF LoopContinues(iteration)
       THEN /\ iteration' = iteration + 1
            /\ pc' = "run_tests"
            /\ iter_ops' = <<>>
            /\ planner_call' = NoCall
            /\ tester_prompt' = <<>>
            /\ coder_files' = <<>>
            /\ coder_call' = NoCoderCall
            /\ UNCHANGED outcome
       ELSE /\ pc' = "summary"
            /\ outcome' = "ABORTED_CAP"
            /\ UNCHANGED << iteration, iter_ops, planner_call, tester_prompt,
                            coder_files, coder_call >>
    /\ UNCHANGED << unitVars, first_push, platform, envVars, gitVars, ci_logs, iteration_history, reflVars,
                    testVars, repo_state, plan, changes, review, ci_status, disk,
                    final_status >>

\* Step 1 and Step 2: run the tests, leave the loop if they pass, else
\* collect the repository files
RunTests ==
    /\ pc = "run_tests"
    /\ \E r \in TestResults :
        LET skip == ci_logs # <<>> /\ iteration = 0 /\ is_ci
            code == IF skip THEN 1 ELSE r[1]
            out  == IF skip THEN <<>> ELSE r[2]
        IN  /\ test_code' = code
            /\ test_output' = out
            /\ IF TestsPassed(code, ci_logs)
               THEN /\ auto_merge' = (auto_merge \/ pr_number # None)
                    /\ pc' = "summary"
                    /\ outcome' = "DONE"
                    /\ iter_ops' = Append(iter_ops, "run_tests")
                    /\ UNCHANGED repo_state
               ELSE /\ repo_state' = collect_files(disk)
                    /\ pc' = "plan"
                    /\ iter_ops' = (IF skip THEN iter_ops
                                    ELSE Append(iter_ops, "run_tests"))
                    /\ UNCHANGED << auto_merge, outcome >>
    /\ UNCHANGED << unitVars, first_push, platform, envVars, pr_number, first_commit_made, ci_logs,
                    iteration_history, reflVars, iteration, stageVars, ci_status,
                    disk, final_status >>

\* a stage invocation raises in _call_claude: main does not catch it
StageFails ==
    /\ pc \in {"plan", "code", "test", "review"}
    /\ iter_ops' = iter_ops \o <<StageAt(pc), "stage_raised">>
    /\ pc' = AfterStageFailure(pc)
    /\ UNCHANGED << unitVars, first_push, platform, envVars, gitVars, ci_logs,
                    iteration_history, reflVars, iteration, testVars, repo_state,
                    stageVars, ci_status, disk, outcome, final_status >>

\* the record numbered from zero
history_record_zero(iteration_, plan_) ==
    [ iteration |-> iteration_, strategy |-> plan_.strategy,
      strategy_changed |-> plan_.should_strategy_change ]

\* the dict main appends to iteration_history after a Planner call
history_record(iteration_, plan_) ==
    [ iteration |-> iteration_ + 1, strategy |-> plan_.strategy,
      strategy_changed |-> plan_.should_strategy_change ]

\* Step 3: call the Planner, record its strategy, stop when it repeats
CallPlanner ==
    /\ pc = "plan"
    /\ planner_call' = call_planner_call(test_output, ci_logs,
                                         previous_attempt_failed,
                                         previous_failure_reason)
    /\ \E p \in PlannerOutputs :
        /\ plan' = p
        /\ iteration_history' =
              Append(iteration_history, history_record(iteration, p))
    /\ iter_ops' = Append(iter_ops, "planner")
    /\ IF is_repeating_strategy(iteration_history', REPEAT_WINDOW)
       THEN pc' = "summary" /\ outcome' = "ABORTED_STUCK"
       ELSE pc' = "code" /\ UNCHANGED outcome
    /\ UNCHANGED << unitVars, first_push, platform, envVars, gitVars, ci_logs, reflVars, iteration, testVars,
                    repo_state, changes, review, coder_files, coder_call, tester_prompt,
                    ci_status, disk, final_status >>

\* Step 4: call the Coder, which gives one of the answers
CallCoderFrom(answers) ==
    /\ pc = "code"
    /\ \E c \in answers :
        /\ changes' = c
        /\ coder_files' = c.files
    /\ coder_call' = call_coder_call(plan, repo_state)
    /\ iter_ops' = Append(iter_ops, "coder")
    /\ pc' = IF NeedsNewTests(plan) THEN "test" ELSE "review"
    /\ UNCHANGED << unitVars, first_push, platform, envVars, gitVars, ci_logs, iteration_history, reflVars,
                    iteration, testVars, repo_state, plan, review, tester_prompt,
                    planner_call, ci_status, disk, outcome, final_status >>

CallCoder == CallCoderFrom(CoderOutputs)

\* Step 5: call the Tester and merge its files into the changeset
CallTester ==
    /\ pc = "test"
    /\ tester_prompt' = call_tester_prompt(CtlState)
    /\ \E test_changes \in TesterOutputs :
        changes' = [changes EXCEPT !.files = extend(@, test_changes.files)]
    /\ iter_ops' = Append(iter_ops, "tester")
    /\ pc' = "review"
    /\ UNCHANGED << unitVars, first_push, platform, envVars, gitVars, ci_logs, iteration_history, reflVars,
                    iteration, testVars, repo_state, plan, review, coder_files, coder_call,
                    planner_call, ci_status, disk, outcome, final_status >>

\* Step 6: call the Reviewer; a rejection feeds back and continues the loop
CallReviewer ==
    /\ pc = "review"
    /\ \E r \in ReviewerOutputs :
        /\ review' = r
        /\ IF ~r.approved
           THEN /\ previous_attempt_failed' = TRUE
                /\ previous_failure_reason' = RejectionReason(r.feedback)
           ELSE UNCHANGED reflVars
        /\ pc' = AfterReview(r)
    /\ iter_ops' = Append(iter_ops, "reviewer")
    /\ UNCHANGED << unitVars, first_push, platform, envVars, gitVars, ci_logs, iteration_history, iteration,
                    testVars, repo_state, plan, changes, coder_files, coder_call,
                    tester_prompt, planner_call, ci_status, disk, outcome,
                    final_status >>

\* Step 7, first half: apply_changes(changes["files"]); a write that raises
\* is not caught by main
ApplyChanges ==
    /\ pc = "apply"
    /\ \E refused \in RefusedWrites :
        LET applied == apply_changes(disk, changes.files, platform, refused)
        IN  /\ disk' = applied.tree
            /\ IF applied.raised
               THEN /\ iter_ops' = Append(iter_ops, "apply_raised")
                    /\ pc' = "crashed"
               ELSE /\ iter_ops' = Append(iter_ops, "apply")
                    /\ pc' = "commit"
    /\ UNCHANGED << unitVars, first_push, platform, envVars, gitVars, ci_logs,
                    iteration_history, reflVars, iteration, testVars, repo_state,
                    stageVars, ci_status, outcome, final_status >>

\* a pull request for every push
NeedsPr_always(pr_number_) == TRUE

\* `if pr_number is None`
NeedsPr(pr_number_) == pr_number_ = None

\* Step 7, second half: commit, push, and create the pull request if none is known
CommitAndPush ==
    /\ pc = "commit"
    /\ LET force == PushForced(is_ci, first_commit_made)
           kind == IF force THEN "push_force" ELSE "push"
       IN  /\ first_commit_made' = (IF is_ci THEN first_commit_made ELSE TRUE)
           /\ first_push' = record_push(first_push, kind)
           /\ IF NeedsPr(pr_number)
              THEN /\ \E n \in PrNumbers : pr_number' = n
                   /\ iter_ops' = iter_ops \o <<"commit", kind, "create_pr">>
              ELSE /\ UNCHANGED pr_number
                   /\ iter_ops' = iter_ops \o <<"commit", kind>>
    /\ pc' = "check_ci"
    /\ UNCHANGED << unitVars, platform, envVars, auto_merge, ci_logs, iteration_history, reflVars,
                    iteration, testVars, repo_state, stageVars, ci_status, disk,
                    outcome, final_status >>

\* Step 8: wait, query the checks of the pull request, and decide
CheckCI ==
    /\ pc = "check_ci"
    /\ \E checks \in CheckLists :
        LET status == get_pr_status(checks)
        IN  /\ ci_status' = status
            /\ IF AllChecksPassed(status)
               THEN /\ auto_merge' = (auto_merge \/ (is_ci /\ pr_number # None))
                    /\ pc' = "summary"
                    /\ outcome' = "DONE"
                    /\ UNCHANGED << ci_logs, reflVars >>
               ELSE /\ ci_logs' = extract_ci_logs(status.checks)
                                   \o <<"Workflow Run Logs:", "run log">>
                    /\ previous_attempt_failed' = TRUE
                    /\ previous_failure_reason' = <<"CI checks failed">>
                    /\ pc' = "loop"
                    /\ UNCHANGED << auto_merge, outcome >>
    /\ iter_ops' = iter_ops \o <<"wait_for_ci", "get_pr_status">>
    /\ UNCHANGED << unitVars, first_push, platform, envVars, pr_number, first_commit_made, iteration_history,
                    iteration, testVars, repo_state, stageVars, disk, final_status >>

\* the summary after the loop; ci_status is read only when test_code is not 0,
\* and reading it before any CI check raises NameError
Summary ==
    /\ pc = "summary"
    /\ IF test_code = 0
       THEN final_status' = "SUCCESS" /\ pc' = "end"
       ELSE IF ~ci_status.bound
            THEN pc' = "crashed" /\ UNCHANGED final_status
            ELSE /\ final_status' = (IF ci_status.all_passed THEN "SUCCESS"
                                     ELSE "INCOMPLETE")
                 /\ pc' = "end"
    /\ UNCHANGED << unitVars, first_push, platform, envVars, gitVars, ci_logs, iteration_history, reflVars,
                    iteration, testVars, repo_state, stageVars, ci_status, disk,
                    iter_ops, outcome >>

Next ==
    \/ CheckRunaway
    \/ CISetup
    \/ LocalSetup
    \/ ForIteration
    \/ RunTests
    \/ StageFails
    \/ CallPlanner
    \/ CallCoder
    \/ CallTester
    \/ CallReviewer
    \/ ApplyChanges
    \/ CommitAndPush
    \/ CheckCI
    \/ Summary

Spec == Init /\ [][Next]_vars

\* ------------------------------------ is_repeating_strategy on its own

StrategyNames == {"s1", "s2", "s3"}

Histories ==
    { [i \in 1..Len(ss) |-> [iteration |-> i, strategy |-> ss[i],
                             strategy_changed |-> FALSE]] :
        ss \in SeqsUpTo(StrategyNames, MaxHistory) }

InitRepeating ==
    /\ pc = "unit"
    /\ DevOpsAgent({LocalEnvironment})
    /\ agent_commit_count = Unbound
    /\ pr_number = None
    /\ first_commit_made = FALSE
    /\ ci_logs = <<>>
    /\ iteration_history = <<>>
    /\ previous_attempt_failed = FALSE
    /\ previous_failure_reason = NoneStr
    /\ iteration = Unbound
    /\ test_code = Unbound
    /\ test_output = <<>>
    /\ repo_state = << >>
    /\ plan = NoPlan
    /\ changes = NoChanges
    /\ review = NoReview
    /\ ci_status = NoStatus
    /\ disk = InitialDisk
    /\ iter_ops = <<>>
    /\ setup_ops = <<>>
    /\ outcome = "RUNNING"
    /\ final_status = ""
    /\ planner_call = NoCall
    /\ tester_prompt = <<>>
    /\ coder_files = <<>>
    /\ coder_call = NoCoderCall
    /\ auto_merge = FALSE
    /\ first_push = None
    /\ platform = "posix"
    /\ RunsIdle
    /\ history_arg \in Histories
    /\ repeating_result = <<>>
    /\ claude_result = NoResult
    /\ claude_schema = "planner"
    /\ claude_return = <<>>
    /\ ApplyIdle
    /\ FeatureIdle

\* result = is_repeating_strategy(history, window=3)
ApplyIsRepeating ==
    /\ pc = "unit"
    /\ repeating_result = <<>>
    /\ repeating_result' = << is_repeating_strategy(history_arg, REPEAT_WINDOW) >>
    /\ UNCHANGED << pc, first_push, platform, envVars, gitVars, ci_logs, iteration_history, reflVars,
                    iteration, testVars, repo_state, stageVars, ci_status, disk,
                    iter_ops, outcome, final_status, history_arg, runsVars, claudeVars,
                    applyVars, featureVars >>

NextRepeating == ApplyIsRepeating

SpecRepeating == InitRepeating /\ [][NextRepeating]_vars

\* -------------------------------------------------- _call_claude on its own

\* the controller as constructed, idle while one function is looked at
ControllerIdle ==
    /\ agent_commit_count = Unbound
    /\ pr_number = None
    /\ first_commit_made = FALSE
    /\ ci_logs = <<>>
    /\ iteration_history = <<>>
    /\ previous_attempt_failed = FALSE
    /\ previous_failure_reason = NoneStr
    /\ iteration = Unbound
    /\ test_code = Unbound
    /\ test_output = <<>>
    /\ repo_state = << >>
    /\ plan = NoPlan
    /\ changes = NoChanges
    /\ review = NoReview
    /\ ci_status = NoStatus
    /\ disk = InitialDisk
    /\ iter_ops = <<>>
    /\ setup_ops = <<>>
    /\ outcome = "RUNNING"
    /\ final_status = ""
    /\ planner_call = NoCall
    /\ tester_prompt = <<>>
    /\ coder_files = <<>>
    /\ coder_call = NoCoderCall
    /\ auto_merge = FALSE
    /\ first_push = None

mainVars == << agent_commit_count, pr_number, first_commit_made, ci_logs,
               iteration_history, previous_attempt_failed, previous_failure_reason,
               iteration, test_code, test_output, repo_state, plan, changes, review,
               ci_status, disk, iter_ops, setup_ops, outcome, final_status,
               planner_call, tester_prompt, coder_files, coder_call, auto_merge, first_push >>

Stages == {"planner", "coder", "tester", "reviewer"}

\* a structured payload: some of the stage's required fields, each with a value
Payloads(stage) == { [f \in F |-> "v"] : F \in SUBSET RequiredFields(stage) }

\* what the command may print: text that is not JSON, a JSON array, or a JSON
\* object with or without the keys "result" and "structured_output"
StdOuts(stage) ==
    { [kind |-> "invalid", doc |-> << >>], [kind |-> "array", doc |-> << >>] }
    \cup { [kind |-> "object", doc |-> [k \in K |-> payload]] :
             K \in SUBSET {"result", "structured_output"},
             payload \in Payloads(stage) }

InitCallClaude ==
    /\ pc = "unit"
    /\ DevOpsAgent({LocalEnvironment})
    /\ ControllerIdle
    /\ platform = "posix"
    /\ RunsIdle
    /\ history_arg = <<>>
    /\ repeating_result = <<>>
    /\ claude_schema \in Stages
    /\ claude_result \in [returncode : {0, 1}, stdout : StdOuts(claude_schema)]
    /\ claude_return = <<>>
    /\ ApplyIdle
    /\ FeatureIdle

\* response = self._call_claude(prompt, SCHEMA)
ApplyCallClaude ==
    /\ pc = "unit"
    /\ claude_return = <<>>
    /\ claude_return' = << _call_claude(claude_result, claude_schema) >>
    /\ UNCHANGED << pc, is_ci, environ, current_branch, platform, mainVars, repeatingVars, runsVars, applyVars, featureVars,
                    claude_result, claude_schema >>

NextCallClaude == ApplyCallClaude

SpecCallClaude == InitCallClaude /\ [][NextCallClaude]_vars

\* ------------------------------------------------- apply_changes on its own

\* paths of a changeset: in the root, in a directory that exists when it holds
\* a file, and in a directory that no tree of the model holds
ChangePaths == {"a.py", "pkg/b.py", "new/c.py"}

\* contents without a line end, with a line feed, with CR LF
Contents == { <<"x">>, <<"y", "LF">>, <<"x", "CR", "LF">> }

Platforms == {"posix", "win32"}

\* the file trees before the call: any of a.py and pkg/b.py, as written
\* earlier on the same platform
Trees(platform_) ==
    UNION { [ps -> { encode(c, platform_) : c \in Contents }] :
              ps \in SUBSET {"a.py", "pkg/b.py"} }

Changesets == SeqsUpTo([path : ChangePaths, content : Contents], MaxFiles)

InitApply ==
    /\ pc = "unit"
    /\ DevOpsAgent({LocalEnvironment})
    /\ ControllerIdle
    /\ platform \in Platforms
    /\ RunsIdle
    /\ history_arg = <<>>
    /\ repeating_result = <<>>
    /\ claude_result = NoResult
    /\ claude_schema = "planner"
    /\ claude_return = <<>>
    /\ apply_controller \in {"controller", "feature_controller"}
    /\ apply_files \in Changesets
    /\ apply_refused \in { {} } \cup { {q} : q \in ChangePaths }
    /\ apply_result = <<>>
    /\ apply_tree \in Trees(platform)
    /\ FeatureIdle

\* apply_changes of the chosen module on a tree
ApplyOf(tree) ==
    IF apply_controller = "controller"
    THEN apply_changes(tree, apply_files, platform, apply_refused)
    ELSE feature_apply_changes(tree, apply_files, platform, apply_refused)

\* apply_changes(files)
ApplyOnce ==
    /\ pc = "unit"
    /\ apply_result = <<>>
    /\ apply_result' = << ApplyOf(apply_tree) >>
    /\ UNCHANGED << pc, is_ci, environ, current_branch, platform, mainVars, repeatingVars, runsVars, claudeVars, featureVars,
                    apply_controller, apply_tree, apply_files, apply_refused >>

\* apply_changes(files) once more, on the tree the first call left
ApplyAgain ==
    /\ pc = "unit"
    /\ Len(apply_result) = 1
    /\ apply_result' = Append(apply_result, ApplyOf(apply_result[1].tree))
    /\ UNCHANGED << pc, is_ci, environ, current_branch, platform, mainVars, repeatingVars, runsVars, claudeVars, featureVars,
                    apply_controller, apply_tree, apply_files, apply_refused >>

NextApply == ApplyOnce \/ ApplyAgain

SpecApply == InitApply /\ [][NextApply]_vars

\* ------------------------------- the set-up of main in every environment (C26)

InitDetect == MainStart(AllEnvironments)

\* the set-up, up to the start of the first iteration
NextDetect ==
    \/ CheckRunaway
    \/ CISetup
    \/ LocalSetup
    \/ ForIteration

SpecDetect == InitDetect /\ [][NextDetect]_vars

\* ------------------------------------------ call_coder on its own (C25)

\* paths a plan may name: two files of the repository root, one of a directory
CoderPaths == {"a.py", "test_a.py", "pkg/b.py"}

\* the trees the Coder is looked at on: each file there or not, a.py with or
\* without a CR LF line end
CoderTrees ==
    { t \in UNION { [D -> { <<"a0">>, <<"a0", "CR", "LF">>, <<"t0">>, <<"b0">> }] :
                      D \in SUBSET CoderPaths } :
        /\ "a.py" \in DOMAIN t => t["a.py"] \in { <<"a0">>, <<"a0", "CR", "LF">> }
        /\ "test_a.py" \in DOMAIN t => t["test_a.py"] = <<"t0">>
        /\ "pkg/b.py" \in DOMAIN t => t["pkg/b.py"] = <<"b0">> }

\* the plans the Planner may have answered: any list of up to MaxFiles paths
CoderPlans ==
    { [analysis |-> "an1", files_to_modify |-> f, strategy |-> "s1",
       needs_new_tests |-> nt, coverage_gaps |-> <<>>,
       should_strategy_change |-> FALSE] :
        f \in SeqsUpTo(CoderPaths, MaxFiles), nt \in BOOLEAN }

\* the first iteration of an interactive run, the Planner just answered
InitCoder ==
    /\ pc = "code"
    /\ is_ci = FALSE
    /\ environ = LocalEnvironment.environ
    /\ current_branch = NewBranch
    /\ platform = "posix"
    /\ agent_commit_count = Unbound
    /\ pr_number = None
    /\ first_commit_made = FALSE
    /\ ci_logs = <<>>
    /\ previous_attempt_failed = FALSE
    /\ previous_failure_reason = NoneStr
    /\ iteration = 0
    /\ test_code = 1
    /\ test_output = <<"FAILED">>
    /\ disk \in CoderTrees
    /\ repo_state = collect_files(disk)
    /\ plan \in CoderPlans
    /\ iteration_history = << [ iteration |-> 1, strategy |-> plan.strategy,
                                strategy_changed |-> plan.should_strategy_change ] >>
    /\ changes = NoChanges
    /\ review = NoReview
    /\ ci_status = NoStatus
    /\ iter_ops = <<"run_tests", "planner">>
    /\ setup_ops = <<"create_branch">>
    /\ outcome = "RUNNING"
    /\ final_status = ""
    /\ planner_call = [ called |-> TRUE, test_result |-> test_output,
                        ci_logs |-> ci_logs,
                        previous_attempt_failed |-> FALSE,
                        failure_reason |-> NoneStr ]
    /\ tester_prompt = <<>>
    /\ coder_files = <<>>
    /\ coder_call = NoCoderCall
    /\ auto_merge = FALSE
    /\ first_push = None
    /\ RunsIdle
    /\ history_arg = <<>>
    /\ repeating_result = <<>>
    /\ claude_result = NoResult
    /\ claude_schema = "planner"
    /\ claude_return = <<>>
    /\ ApplyIdle
    /\ FeatureIdle

NextCoder == CallCoder

SpecCoder == InitCoder /\ [][NextCoder]_vars

\* ----------------------------------- the feature pipeline (feature_controller.py)

\* the variables of the repair controller that the feature pipeline does not have
repairVars == << agent_commit_count, first_commit_made, ci_logs, iteration_history,
                 reflVars, iteration, testVars, plan, review, ci_status, setup_ops,
                 outcome, final_status, planner_call, tester_prompt, coder_files,
                 coder_call,
                 auto_merge, first_push >>

\* what call_requirements_gather may answer
RequirementsOutputs ==
    { [gherkin_scenarios |-> <<"Scenario: one">>, needs_clarification |-> nc,
       clarification_questions |->
           (IF nc THEN <<[question |-> "q1", suggested_answers |-> sa]>> ELSE <<>>),
       requirements_summary |-> "summary"] :
        nc \in BOOLEAN, sa \in {<<>>, <<"ans1">>} }

\* what call_technical_planner may answer
TechPlans ==
    { [implementation_plan |-> "impl", files_to_modify |-> <<"a.py">>,
       strategy |-> "st", needs_new_tests |-> nt, test_strategy |-> "unit tests"] :
        nt \in BOOLEAN }

\* what the Coder may answer in the feature pipeline: a change of a file, or a
\* new file in a new directory
FeatureCoderOutputs ==
    CoderOutputs \cup
    { [files |-> <<[path |-> "new/c.py", content |-> <<"c1", "LF">>]>>,
       commit_message |-> "add c"] }

\* collect_files of feature_controller.py: the *.py files of the whole tree,
\* leaving out every path that contains "controller"
feature_collect_files(tree) ==
    [ p \in { q \in DOMAIN tree : fnmatch(q, "*.py") /\ q \notin {"controller.py"} }
        |-> read_text(tree[p]) ]

\* "\n\n".join(gherkin_scenarios)
RECURSIVE JoinScenarios(_)
JoinScenarios(scenarios) ==
    IF scenarios = <<>> THEN <<>>
    ELSE IF Len(scenarios) = 1 THEN <<Head(scenarios)>>
    ELSE <<Head(scenarios), "LF", "LF">> \o JoinScenarios(Tail(scenarios))

\* the pipeline goes back to the Coder after the last checkpoint
AfterApproval_again(gate) ==
    CASE gate = "f_gate_criteria" -> "f_criteria"
      [] gate = "f_gate_design"   -> "f_design"
      [] gate = "f_gate_plan"     -> "f_plan"
      [] gate = "f_gate_code"     -> "f_code"
      [] gate = "f_gate_apply"    -> "f_code"

\* the step that follows an approved checkpoint
AfterApproval(gate) ==
    CASE gate = "f_gate_criteria" -> "f_criteria"
      [] gate = "f_gate_design"   -> "f_design"
      [] gate = "f_gate_plan"     -> "f_plan"
      [] gate = "f_gate_code"     -> "f_code"
      [] gate = "f_gate_apply"    -> "f_apply"

\* the denial is printed and the pipeline goes on
AfterDenial_on(gate) == AfterApproval(gate)

\* the step that follows a denied checkpoint: "Stopped by user", return
AfterDenial(gate) == "f_returned"

Gates == {"f_gate_criteria", "f_gate_design", "f_gate_plan", "f_gate_code",
          "f_gate_apply"}

InitFeature ==
    /\ pc = "f_start"
    /\ DevOpsAgent(RunEnvironments)
    /\ platform \in Platforms
    /\ ControllerIdle
    /\ RunsIdle
    /\ history_arg = <<>>
    /\ repeating_result = <<>>
    /\ claude_result = NoResult
    /\ claude_schema = "planner"
    /\ claude_return = <<>>
    /\ ApplyIdle
    /\ args \in [ci_mode : BOOLEAN, auto_approve : BOOLEAN]
    /\ requirements_output = NoRequirements
    /\ clarification_iteration = 0
    /\ tech_plan = NoTechPlan

\* get_requirements_input and the test for empty requirements
GetRequirements ==
    /\ pc = "f_start"
    /\ \E source \in {"env", "file"}
                     \cup (IF args.ci_mode THEN {"missing"} ELSE {"stdin"}),
          raw_requirements \in { <<>>, <<"req">> } :
        /\ iter_ops' = (IF source = "stdin" THEN <<"input">> ELSE <<>>)
        /\ pc' = IF source = "missing" \/ raw_requirements = <<>>
                 THEN "f_returned"
                 ELSE "f_requirements"
    /\ UNCHANGED << unitVars, platform, is_ci, environ, current_branch, repairVars,
                    pr_number, repo_state,
                    changes, disk >>


\* the variables of the specifications of single functions
functionVars == << repeatingVars, claudeVars, applyVars, runsVars >>

\* what the feature pipeline never changes
featureFrame == << functionVars, platform, is_ci, environ, current_branch,
                   repairVars, args >>

\* one round more than the cap
NeedsRound_le ==
    /\ requirements_output.needs_clarification
    /\ clarification_iteration <= MAX_CLARIFICATION_ROUNDS

\* a clarification round is due
NeedsRound ==
    /\ requirements_output.needs_clarification
    /\ clarification_iteration < MAX_CLARIFICATION_ROUNDS

\* a stage invocation of the feature pipeline raises in _call_claude: main
\* does not catch it
FeatureStageFails ==
    /\ \/ pc \in {"f_requirements", "f_criteria", "f_design", "f_plan", "f_code",
                  "f_test"}
       \/ pc = "f_clarify" /\ NeedsRound
    /\ iter_ops' = iter_ops
          \o (IF pc = "f_clarify" /\ ~(args.ci_mode \/ args.auto_approve)
              THEN <<"input">> ELSE <<>>)
          \o <<StageAt(pc), "stage_raised">>
    /\ clarification_iteration' =
          IF pc = "f_clarify" THEN clarification_iteration + 1
          ELSE clarification_iteration
    /\ pc' = AfterStageFailure(pc)
    /\ UNCHANGED << featureFrame, requirements_output,
                    tech_plan, pr_number, repo_state, changes, disk >>

\* Phase 1: the first call_requirements_gather
CallRequirementsGather ==
    /\ pc = "f_requirements"
    /\ \E r \in RequirementsOutputs : requirements_output' = r
    /\ clarification_iteration' = 0
    /\ iter_ops' = Append(iter_ops, "requirements_gather")
    /\ pc' = "f_clarify"
    /\ UNCHANGED << featureFrame, tech_plan, pr_number, repo_state, changes, disk >>

\* one turn of the clarification loop: answer the questions, call the stage again
ClarificationRound ==
    /\ pc = "f_clarify"
    /\ NeedsRound
    /\ clarification_iteration' = clarification_iteration + 1
    /\ \E r \in RequirementsOutputs : requirements_output' = r
    /\ iter_ops' = iter_ops \o
          (IF args.ci_mode \/ args.auto_approve THEN <<>> ELSE <<"input">>)
          \o <<"requirements_gather">>
    /\ pc' = "f_clarify"
    /\ UNCHANGED << featureFrame, tech_plan, pr_number, repo_state, changes, disk >>

\* after the loop: Path("requirements.gherkin").write_text(...)
SaveGherkin ==
    /\ pc = "f_clarify"
    /\ ~NeedsRound
    /\ disk' = write_text(disk, "requirements.gherkin",
                          JoinScenarios(requirements_output.gherkin_scenarios),
                          platform)
    /\ iter_ops' = Append(iter_ops, "write_gherkin")
    /\ pc' = "f_gate_criteria"
    /\ UNCHANGED << featureFrame, requirements_output, clarification_iteration,
                    tech_plan, pr_number, repo_state, changes >>

\* get_user_approval(prompt, args.auto_approve): approved without a question
\* under --auto-approve, else the answer read from the terminal (answers other
\* than yes and no are asked again); input() raises EOFError, which nothing
\* catches, when the terminal has no more input
GetUserApproval ==
    /\ pc \in Gates
    /\ IF args.auto_approve
       THEN /\ iter_ops' = Append(iter_ops, "approved")
            /\ pc' = AfterApproval(pc)
       ELSE \E answer \in {"yes", "no", "eof"} :
            /\ iter_ops' = iter_ops \o
                  <<"input", CASE answer = "yes" -> "approved"
                               [] answer = "no"  -> "denied"
                               [] answer = "eof" -> "input_raised">>
            /\ pc' = CASE answer = "yes" -> AfterApproval(pc)
                        [] answer = "no"  -> AfterDenial(pc)
                        [] answer = "eof" -> "crashed"
    /\ UNCHANGED << featureFrame, requirements_output, clarification_iteration,
                    tech_plan, pr_number, repo_state, changes, disk >>

\* Phase 2: call_acceptance_criteria
CallAcceptanceCriteria ==
    /\ pc = "f_criteria"
    /\ iter_ops' = Append(iter_ops, "acceptance_criteria")
    /\ pc' = "f_gate_design"
    /\ UNCHANGED << featureFrame, requirements_output, clarification_iteration,
                    tech_plan, pr_number, repo_state, changes, disk >>

\* Phase 3: collect_files and call_architect_planner
CallArchitectPlanner ==
    /\ pc = "f_design"
    /\ repo_state' = feature_collect_files(disk)
    /\ iter_ops' = Append(iter_ops, "architect_planner")
    /\ pc' = "f_gate_plan"
    /\ UNCHANGED << featureFrame, requirements_output, clarification_iteration,
                    tech_plan, pr_number, changes, disk >>

\* Phase 4: call_technical_planner
CallTechnicalPlanner ==
    /\ pc = "f_plan"
    /\ \E t \in TechPlans : tech_plan' = t
    /\ iter_ops' = Append(iter_ops, "technical_planner")
    /\ pc' = "f_gate_code"
    /\ UNCHANGED << featureFrame, requirements_output, clarification_iteration,
                    pr_number, repo_state, changes, disk >>

\* Phase 5: call_coder
FeatureCallCoder ==
    /\ pc = "f_code"
    /\ \E c \in FeatureCoderOutputs : changes' = c
    /\ iter_ops' = Append(iter_ops, "coder")
    /\ pc' = IF NeedsNewTests(tech_plan) THEN "f_test" ELSE "f_gate_apply"
    /\ UNCHANGED << featureFrame, requirements_output, clarification_iteration,
                    tech_plan, pr_number, repo_state, disk >>

\* Phase 6: call_tester and the merge of its files into the changeset
FeatureCallTester ==
    /\ pc = "f_test"
    /\ \E test_changes \in TesterOutputs :
        changes' = [changes EXCEPT !.files = extend(@, test_changes.files)]
    /\ iter_ops' = Append(iter_ops, "tester")
    /\ pc' = "f_gate_apply"
    /\ UNCHANGED << featureFrame, requirements_output, clarification_iteration,
                    tech_plan, pr_number, repo_state, disk >>

\* Phase 8, first half: apply_changes(changes['files'])
FeatureApplyChanges ==
    /\ pc = "f_apply"
    /\ \E refused \in RefusedWrites :
        LET applied == feature_apply_changes(disk, changes.files, platform, refused)
        IN  /\ disk' = applied.tree
            /\ IF applied.raised
               THEN /\ iter_ops' = Append(iter_ops, "apply_raised")
                    /\ pc' = "crashed"
               ELSE /\ iter_ops' = Append(iter_ops, "apply")
                    /\ pc' = "f_commit"
    /\ UNCHANGED << featureFrame, requirements_output, clarification_iteration,
                    tech_plan, pr_number, repo_state, changes >>

\* Phase 8, second half: create the branch and the pull request unless the
\* gateway is in CI mode; commit and push in between
FeatureCommitAndPush ==
    /\ pc = "f_commit"
    /\ IF is_ci
       THEN /\ iter_ops' = iter_ops \o <<"commit", "push">>
            /\ UNCHANGED << pr_number, current_branch >>
       ELSE /\ iter_ops' = iter_ops \o <<"create_branch", "commit", "push", "create_pr">>
            /\ current_branch' = NewBranch
            /\ \E n \in PrNumbers : pr_number' = n
    /\ pc' = "f_end"
    /\ UNCHANGED << functionVars, platform, is_ci, environ, repairVars, args,
                    requirements_output, clarification_iteration,
                    tech_plan, repo_state, changes, disk >>

NextFeature ==
    \/ GetRequirements
    \/ FeatureStageFails
    \/ CallRequirementsGather
    \/ ClarificationRound
    \/ SaveGherkin
    \/ GetUserApproval
    \/ CallAcceptanceCriteria
    \/ CallArchitectPlanner
    \/ CallTechnicalPlanner
    \/ FeatureCallCoder
    \/ FeatureCallTester
    \/ FeatureApplyChanges
    \/ FeatureCommitAndPush

SpecFeature == InitFeature /\ [][NextFeature]_vars

\* ------------------------------------------------------ the two controllers

InitControllers == Init \/ InitFeature

NextControllers == Next \/ NextFeature

SpecControllers == InitControllers /\ [][NextControllers]_vars

\* ------------------------------------------------------------------- claims

LoopOps == {"run_tests", "planner", "coder", "tester", "reviewer", "apply",
            "apply_raised", "stage_raised",
            "commit", "push", "push_force", "create_pr", "wait_for_ci",
            "get_pr_status"}
StageOps == {"planner", "coder", "tester", "reviewer"}
WriteOps == {"apply", "commit", "push", "push_force", "create_pr"}

\* the iteration that has just ended was rejected by the Reviewer
JustRejected ==
    /\ pc = "loop"
    /\ iter_ops # <<>>
    /\ Last(iter_ops) = "reviewer"
    /\ ~review.approved

\* the Planner has been called in an iteration that follows a rejected one
PlannerAfterRejection ==
    /\ planner_call.called
    /\ iteration > 0
    /\ "reviewer" \notin Range(iter_ops)
    /\ ~review.approved

\* C1: when the Reviewer rejects, the iteration has written no file of the
\* changeset (the tree is as it was collected) and has not applied, committed,
\* pushed or opened a pull request; the changeset the Reviewer sees starts
\* with this iteration's Coder files and nothing carried over; and the next
\* iteration's Planner call gets previous_attempt_failed = TRUE and a failure
\* reason that contains the Reviewer's feedback.
C1_RejectedChangesetDiscarded ==
    /\ JustRejected =>
         /\ Range(iter_ops) \cap WriteOps = {}
         /\ \A p \in DOMAIN repo_state : disk[p] = repo_state[p]
         /\ previous_attempt_failed
         /\ Contains(previous_failure_reason, review.feedback)
    /\ (iteration = 0 /\ JustRejected) => disk = InitialDisk
    /\ ("coder" \in Range(iter_ops) /\ pc # "crashed") =>
         /\ Len(changes.files) >= Len(coder_files)
         /\ SubSeq(changes.files, 1, Len(coder_files)) = coder_files
         /\ ("tester" \notin Range(iter_ops) => changes.files = coder_files)
    /\ PlannerAfterRejection =>
         /\ planner_call.previous_attempt_failed
         /\ Contains(planner_call.failure_reason, review.feedback)

C1_Witness ==
    /\ PlannerAfterRejection
    /\ review.feedback = "fb2"
    /\ pc = "code"

\* the last three records of the history hold the same strategy
LastThreeEqual ==
    /\ Len(iteration_history) >= 3
    /\ LET n == Len(iteration_history)
       IN  /\ iteration_history[n].strategy = iteration_history[n - 1].strategy
           /\ iteration_history[n].strategy = iteration_history[n - 2].strategy

\* C2: as soon as three consecutive iterations got the same strategy from the
\* Planner, the run has left the loop with the repetition diagnostic: the
\* Planner call is the last thing the third iteration did, no Coder, Tester,
\* Reviewer, apply, commit or push happened in it, and no further iteration
\* has started.  Three equal strategies in a row occur nowhere but at the end
\* of the history.
C2_RepetitionStopsRun ==
    /\ LastThreeEqual =>
         /\ outcome = "ABORTED_STUCK"
         /\ pc \in {"summary", "end", "crashed"}
         /\ Last(iter_ops) = "planner"
         /\ Range(iter_ops) \cap ((StageOps \ {"planner"}) \cup WriteOps) = {}
         /\ Len(iteration_history) = iteration + 1
    /\ \A k \in 1..Len(iteration_history) :
         (/\ k + 2 <= Len(iteration_history)
          /\ iteration_history[k].strategy = iteration_history[k + 1].strategy
          /\ iteration_history[k].strategy = iteration_history[k + 2].strategy)
         => k + 2 = Len(iteration_history)

C2_Witness ==
    /\ outcome = "ABORTED_STUCK"
    /\ Len(iteration_history) = 5
    /\ iteration_history[2].strategy # iteration_history[3].strategy
    /\ pc = "summary"

\* C3: is_repeating_strategy(history, 3) is TRUE exactly when the history
\* holds at least 3 records and its last 3 strategies are equal, whatever the
\* older records are.
C3_RepeatingExactlyLastThree ==
    repeating_result # <<>> =>
        LET n == Len(history_arg)
        IN  repeating_result[1] =
              (/\ n >= 3
               /\ history_arg[n].strategy = history_arg[n - 1].strategy
               /\ history_arg[n - 1].strategy = history_arg[n - 2].strategy)

C3_Witness ==
    /\ repeating_result = <<FALSE>>
    /\ Len(history_arg) = 5
    /\ history_arg[1].strategy = history_arg[2].strategy
    /\ history_arg[2].strategy = history_arg[3].strategy
    /\ history_arg[4].strategy = history_arg[5].strategy
    /\ history_arg[3].strategy # history_arg[4].strategy

\* C4: in CI mode a count of agent-bot commits of 7 or more among the last 10
\* ends the run at the breaker, before git is configured and before any stage,
\* test run, file write, commit or push; a count below 7 lets the run go on to
\* the rest of the set-up, whose one next step enters the loop.
C4_State ==
    /\ agent_commit_count # Unbound =>
         /\ is_ci
         /\ agent_commit_count \in 0..COMMIT_WINDOW
         /\ IF agent_commit_count >= 7
            THEN pc = "exited"
            ELSE pc = "ci_setup"
    /\ pc = "exited" =>
         /\ agent_commit_count >= 7
         /\ setup_ops = <<"check_runaway">>
         /\ iter_ops = <<>>
         /\ iteration = Unbound
         /\ iteration_history = <<>>
         /\ disk = InitialDisk
         /\ ~auto_merge
         /\ pr_number = None

C4_RunawayBreaker ==
    /\ []C4_State
    /\ [][pc = "ci_setup" => (pc' = "loop" /\ iteration' = Unbound)]_vars

C4_Witness ==
    /\ pc = "exited"
    /\ agent_commit_count = 7

\* C5: when the tests exit with 0 and no CI signal is pending, the run leaves
\* the loop as DONE in that iteration: the test run is all the iteration did,
\* and the summary reports SUCCESS.
C5_TestsPassEndsRun ==
    (/\ iter_ops # <<>>
     /\ Last(iter_ops) = "run_tests"
     /\ test_code = 0
     /\ ci_logs = <<>>)
    => /\ outcome = "DONE"
       /\ pc \in {"summary", "end"}
       /\ iter_ops = <<"run_tests">>
       /\ (pc = "end" => final_status = "SUCCESS")

C5_Witness ==
    /\ pc = "end"
    /\ outcome = "DONE"
    /\ iter_ops = <<"run_tests">>
    /\ iteration = 2
    /\ previous_attempt_failed

\* CHECK_CI has just been answered with an empty list of checks
JustZeroChecks ==
    /\ iter_ops # <<>>
    /\ Last(iter_ops) = "get_pr_status"
    /\ ci_status.checks = <<>>

\* the Planner has been called in an iteration that follows one whose CI
\* query returned no checks
PlannerAfterZeroChecks ==
    /\ planner_call.called
    /\ iteration > 0
    /\ "reviewer" \notin Range(iter_ops)
    /\ review.approved
    /\ ci_status.bound
    /\ ci_status.checks = <<>>

\* C6: a CI query that returns zero checks does not leave the loop as DONE:
\* the CI signal is set, previous_attempt_failed is TRUE with the reason
\* "CI checks failed", and the run is at the loop head (or, after the last
\* iteration, has left the loop by the cap); the next step from the loop head
\* starts the next iteration when the cap allows, and the Planner of that
\* iteration is told of the failure.
C6_State ==
    /\ JustZeroChecks =>
         /\ outcome # "DONE"
         /\ ci_logs # <<>>
         /\ previous_attempt_failed
         /\ previous_failure_reason = <<"CI checks failed">>
         /\ \/ pc = "loop"
            \/ /\ outcome = "ABORTED_CAP"
               /\ iteration = MAX_ITERS - 1
               /\ pc \in {"summary", "end"}
    /\ PlannerAfterZeroChecks =>
         /\ planner_call.previous_attempt_failed
         /\ planner_call.ci_logs # <<>>

C7_DoneOnlyIfAllSucceeded ==
    (/\ outcome = "DONE"
     /\ iter_ops # <<>>
     /\ Last(iter_ops) = "get_pr_status")
    => /\ ci_status.checks # <<>>
       /\ \A i \in 1..Len(ci_status.checks) :
            ci_status.checks[i].conclusion = "SUCCESS"

\* the measure that every step of the run decreases
PcRank ==
    CASE pc = "init"      -> 3
      [] pc = "ci_setup"  -> 2
      [] pc = "loop"      -> 1
      [] pc = "run_tests" -> 9
      [] pc = "plan"      -> 8
      [] pc = "code"      -> 7
      [] pc = "test"      -> 6
      [] pc = "review"    -> 5
      [] pc = "apply"     -> 4
      [] pc = "commit"    -> 3
      [] pc = "check_ci"  -> 2
      [] OTHER            -> 0

Terminated == pc \in {"end", "crashed", "exited"}

Measure ==
    IF Terminated THEN 0
    ELSE IF pc = "summary" THEN 1
    ELSE 2 + (MAX_ITERS - 1 - iteration) * 10 + PcRank

\* no operation occurs twice in the current iteration
OncePerIteration ==
    \A i, j \in 1..Len(iter_ops) : iter_ops[i] = iter_ops[j] => i = j

\* C8: the loop body runs at most MAX_ITERS times (the loop variable stays
\* below MAX_ITERS and the history holds at most MAX_ITERS records), every
\* operation happens at most once per iteration and only inside an iteration,
\* a run that the cap stops has done MAX_ITERS iterations and starts no
\* further one, and every step of the run decreases a natural-number measure,
\* so that every run ends.
C8_State ==
    /\ iteration \in Unbound..(MAX_ITERS - 1)
    /\ Len(iteration_history) <= MAX_ITERS
    /\ Len(iteration_history) <= iteration + 1
    /\ OncePerIteration
    /\ Range(iter_ops) \subseteq LoopOps
    /\ (iter_ops # <<>> => iteration >= 0)
    /\ (outcome = "ABORTED_CAP" =>
          /\ iteration = MAX_ITERS - 1
          /\ Len(iteration_history) = MAX_ITERS
          /\ pc \in {"summary", "end", "crashed"})
    /\ Measure \in Nat
    /\ (Terminated \/ ENABLED Next)

StateAtTesterCall == [CtlState EXCEPT !.changes.files = coder_files]

\* states that agree with st on the changeset's files, the test files of the
\* snapshot and the plan's coverage gaps, and differ in what the Tester is
\* not to see
TesterVariants(st) ==
    { [st EXCEPT !.test_output = v.test_output,
                 !.ci_logs = v.ci_logs,
                 !.previous_failure_reason = v.reflection.reason,
                 !.previous_attempt_failed = v.reflection.failed,
                 !.review = v.reflection.review,
                 !.pr_number = v.gateway.pr_number,
                 !.is_ci = v.gateway.is_ci,
                 !.first_commit_made = v.gateway.is_ci,
                 !.repo_state["a.py"] = v.other.code,
                 !.plan.strategy = v.other.strategy,
                 !.changes.commit_message = v.other.message] :
        v \in [ test_output : {<<>>, <<"FAILED">>},
                ci_logs : {<<>>, <<"ci test log">>},
                reflection : { [reason |-> NoneStr, failed |-> FALSE,
                                review |-> NoReview],
                               [reason |-> <<"Reviewer rejected: ", "fb1">>,
                                failed |-> TRUE,
                                review |-> [approved |-> FALSE, issues |-> <<"i1">>,
                                            feedback |-> "fb1"]] },
                gateway : { [pr_number |-> None, is_ci |-> FALSE],
                            [pr_number |-> "42", is_ci |-> TRUE] },
                other : { [code |-> <<"a0">>, strategy |-> "s1", message |-> "fix a"],
                          [code |-> <<"a9">>, strategy |-> "s9", message |-> "m9"] } ] }

\* C9: the prompt sent to the Tester is the same for every two controller
\* states that agree on the changeset's files, on the snapshot's test files
\* and on the plan's coverage gaps, however they differ in test output, CI
\* logs, failure reason, review, mode, pull request number, the other
\* snapshot files and the other fields of the plan.
C9_TesterRoleIsolation ==
    (pc = "review" /\ iter_ops # <<>> /\ Last(iter_ops) = "tester") =>
        \A st \in TesterVariants(StateAtTesterCall) :
            call_tester_prompt(st) = tester_prompt

C9_Witness ==
    /\ "tester" \in Range(iter_ops)
    /\ pc = "review"
    /\ ci_logs # <<>>
    /\ previous_attempt_failed
    /\ pr_number # None

\* C10 (as claimed): when the Tester ran, its files follow the Coder's in the
\* changeset, and after APPLY every path the Coder produced holds the Coder's
\* content.
C10_CoderContentSurvives ==
    ("tester" \in Range(iter_ops) /\ "apply" \in Range(iter_ops)) =>
        /\ SubSeq(changes.files, 1, Len(coder_files)) = coder_files
        /\ \A i \in 1..Len(coder_files) :
             disk[coder_files[i].path] = coder_files[i].content

\* the pushes among the operations of a list
Pushes(ops) == { i \in 1..Len(ops) : ops[i] \in {"push", "push_force"} }

\* C11: over a run, counting the calls of push_changes: every push is made by
\* the commit-and-push step, one per step; in CI mode it is forced; in
\* interactive mode it is non-forced when it is the first push of the run and
\* forced when the run has pushed before.  So the only non-forced push of a
\* run is its first.
C11_State ==
    /\ first_push \in (IF is_ci THEN {None, "push_force"} ELSE {None, "push"})
    /\ (~is_ci /\ pc # "init") => (first_commit_made <=> first_push # None)
    /\ Cardinality(Pushes(iter_ops)) <= 1
    /\ Pushes(iter_ops) # {} => first_push # None
    /\ "push" \in Range(iter_ops) => (~is_ci /\ first_push = "push")

RequestFails(result) ==
    \/ result.returncode # 0
    \/ result.stdout.kind = "invalid"
    \/ /\ result.stdout.kind = "object"
       /\ "structured_output" \notin DOMAIN result.stdout.doc

\* C12: a stage invocation raises, and hands nothing back, when the external
\* call exits with a non-zero status, when its output is not valid JSON, and
\* when the parsed JSON object has no "structured_output" key; an invocation
\* that returns a value has met none of the three and returns the content of
\* "structured_output".
C12_RequestFailuresRaise ==
    claude_return # <<>> =>
        LET r == claude_return[1]
        IN  /\ RequestFails(claude_result) =>
                 (r.raised /\ DOMAIN r.value = {} /\ r.message # "")
            /\ ~r.raised =>
                 /\ ~RequestFails(claude_result)
                 /\ DOMAIN r.value = DOMAIN claude_result.stdout.doc["structured_output"]

C12_Witness ==
    /\ claude_return # <<>>
    /\ claude_return[1].raised
    /\ claude_result.returncode # 0
    /\ claude_result.stdout.kind = "object"
    /\ "structured_output" \in DOMAIN claude_result.stdout.doc
    /\ DOMAIN claude_result.stdout.doc["structured_output"] = RequiredFields(claude_schema)

\* C13 (as claimed): a payload that omits a field the stage's schema requires
\* is not returned by the stage invocation: whatever is returned holds every
\* required field.
C13_SchemaViolationRaises ==
    (claude_return # <<>> /\ ~claude_return[1].raised) =>
        RequiredFields(claude_schema) \subseteq DOMAIN claude_return[1].value

\* a stage invocation of the run has raised
StageFailed == "stage_raised" \in Range(iter_ops)

\* C14: in both controllers a stage invocation that raises ends the run: the
\* failure is the last thing the run did and happened once (the call is not
\* made again), the step that fails writes no file, pushes nothing and opens
\* no pull request, and no step of any kind follows it: no stage, no APPLY, no
\* commit, push or pull request.
C14_State ==
    StageFailed =>
        /\ pc = "crashed"
        /\ Last(iter_ops) = "stage_raised"
        /\ Cardinality({ i \in 1..Len(iter_ops) : iter_ops[i] = "stage_raised" }) = 1

C14_StageFailureAborts ==
    /\ []C14_State
    /\ [][pc # "crashed"]_vars
    /\ [][(iter_ops' # iter_ops /\ iter_ops' # <<>> /\ Last(iter_ops') = "stage_raised")
            => /\ pc' = "crashed"
               /\ disk' = disk
               /\ first_push' = first_push
               /\ pr_number' = pr_number
               /\ changes' = changes]_vars

C14_Witness ==
    /\ StageFailed
    /\ pc = "crashed"
    /\ clarification_iteration = 2
    /\ iter_ops[Len(iter_ops) - 1] = "requirements_gather"

\* the tree as it was when this iteration collected it; nothing writes
\* between the snapshot and APPLY
TreeBeforeApply == repo_state

\* C15 (as claimed): once APPLY has been entered, the working tree either
\* holds every File Change of the changeset (it is the tree a complete
\* apply_changes leaves) or is the tree from before APPLY, also when a write
\* raised part-way.
C15_ChangesetAtomic ==
    (Range(iter_ops) \cap {"apply", "apply_raised"} # {}) =>
        \/ disk = apply_changes(TreeBeforeApply, changes.files, platform, {}).tree
        \/ disk = TreeBeforeApply

\* C16 (as claimed): after an apply_changes that completes, reading the file
\* at the path of any File Change of the changeset returns the content of that
\* File Change.
C16_ApplyRoundTrip ==
    (apply_result # <<>> /\ ~apply_result[1].raised) =>
        \A i \in 1..Len(apply_files) :
            read_text(apply_result[1].tree[apply_files[i].path])
              = apply_files[i].content

\* C17: applying a changeset a second time, right after the first and with
\* the system refusing the same writes, ends the same way and leaves the file
\* tree the first call left, also when the changeset names a path twice.
C17_ApplyIdempotent ==
    Len(apply_result) = 2 =>
        /\ apply_result[2].tree = apply_result[1].tree
        /\ apply_result[2].raised = apply_result[1].raised

C17_Witness ==
    /\ Len(apply_result) = 2
    /\ ~apply_result[1].raised
    /\ Len(apply_files) = 2
    /\ apply_files[1].path = apply_files[2].path
    /\ apply_files[1].content # apply_files[2].content
    /\ apply_files[1].path \in DOMAIN apply_tree
    /\ apply_result[1].tree # apply_tree

\* C18 (as claimed): when the system refuses no write, apply_changes of
\* either module completes and every path of the changeset is a file of the
\* tree afterwards, also when the path lies in a directory that did not exist.
C18_ApplyMakesDirectories ==
    (apply_result # <<>> /\ apply_refused = {}) =>
        /\ ~apply_result[1].raised
        /\ \A i \in 1..Len(apply_files) :
             apply_files[i].path \in DOMAIN apply_result[1].tree

\* C19 (as claimed): when CHECK_CI finds all checks passed and the run leaves
\* the loop as DONE, auto-merge has been enabled on the pull request, in
\* interactive mode as in CI mode.
C19_AutoMergeOnDone ==
    (/\ outcome = "DONE"
     /\ iter_ops # <<>>
     /\ Last(iter_ops) = "get_pr_status"
     /\ ci_status.checks # <<>>
     /\ \A i \in 1..Len(ci_status.checks) :
          ci_status.checks[i].conclusion = "SUCCESS")
    => auto_merge

\* C20 (as claimed): a run that left the loop by the repetition stop or by the
\* iteration cap does not end in an unhandled error, and its summary reports a
\* status other than SUCCESS.
C20_AbortEndsInSummary ==
    outcome \in {"ABORTED_STUCK", "ABORTED_CAP"} =>
        /\ pc \in {"summary", "end"}
        /\ (pc = "end" => final_status = "INCOMPLETE")

\* the place of a stage of the feature pipeline in the order of the stages;
\* 0 for what is not one of the stages that follow requirements-gathering
FeatureRank(op) ==
    CASE op = "acceptance_criteria"         -> 1
      [] op = "architect_planner"           -> 2
      [] op = "technical_planner"           -> 3
      [] op = "coder"                       -> 4
      [] op = "tester"                      -> 5
      [] op \in {"apply", "apply_raised"}   -> 6
      [] OTHER                              -> 0

\* the positions of the run's log at which a stage after requirements-gathering
\* was entered
LaterStages(ops) == { i \in 1..Len(ops) : FeatureRank(ops[i]) > 0 }

\* C21: the feature pipeline is linear: of acceptance criteria, architecture
\* design, implementation plan, Coder, Tester and APPLY each is entered at most
\* once in a run, in that order, none before requirements-gathering has
\* finished (its last call made and the scenarios saved), none without the
\* stages before it (the Tester alone may be skipped), and
\* requirements-gathering is not entered again once a later stage has started.
C21_LinearPipeline ==
    /\ \A i, j \in LaterStages(iter_ops) :
          i < j => FeatureRank(iter_ops[i]) < FeatureRank(iter_ops[j])
    /\ \A i \in LaterStages(iter_ops) :
          /\ \E k \in 1..(i - 1) : iter_ops[k] = "write_gherkin"
          /\ \A k \in i..Len(iter_ops) : iter_ops[k] # "requirements_gather"
          /\ \A r \in 1..(FeatureRank(iter_ops[i]) - 1) :
                r # 5 => \E k \in 1..(i - 1) : FeatureRank(iter_ops[k]) = r

C21_Witness ==
    /\ pc = "f_end"
    /\ Cardinality(LaterStages(iter_ops)) = 6
    /\ clarification_iteration = 2

\* the calls of requirements-gathering in the run's log
GatherCalls(ops) == { i \in 1..Len(ops) : ops[i] = "requirements_gather" }

\* C22: requirements-gathering is invoked at most 1 + MAX_CLARIFICATION_ROUNDS
\* = 4 times in a run of the feature pipeline: once, and once more per
\* clarification round (calls that raise included); a round starts only when the latest result has
\* needs_clarification = true; and once the third round has answered, the next
\* step saves the scenarios and goes on to the first checkpoint, whatever the
\* latest result says.
C22_State ==
    /\ Cardinality(GatherCalls(iter_ops)) <= 1 + MAX_CLARIFICATION_ROUNDS
    /\ clarification_iteration \in 0..MAX_CLARIFICATION_ROUNDS
    /\ GatherCalls(iter_ops) # {}
          => Cardinality(GatherCalls(iter_ops)) = 1 + clarification_iteration

C22_ClarificationCap ==
    /\ []C22_State
    /\ [][/\ Cardinality(GatherCalls(iter_ops')) > Cardinality(GatherCalls(iter_ops))
             => \/ pc = "f_requirements"
                \/ pc = "f_clarify" /\ requirements_output.needs_clarification
          /\ (pc = "f_clarify" /\ clarification_iteration = MAX_CLARIFICATION_ROUNDS)
             => /\ pc' = "f_gate_criteria"
                /\ requirements_output' = requirements_output
                /\ GatherCalls(iter_ops') = GatherCalls(iter_ops)]_vars

C22_Witness ==
    /\ pc = "f_criteria"
    /\ clarification_iteration = MAX_CLARIFICATION_ROUNDS
    /\ requirements_output.needs_clarification
    /\ Cardinality(GatherCalls(iter_ops)) = 4

\* a checkpoint of the run was answered with no
Denied == "denied" \in Range(iter_ops)

\* what may not follow a denied checkpoint: the stages, APPLY and the git
\* operations
GatedOps == {"requirements_gather", "acceptance_criteria", "architect_planner",
             "technical_planner", "coder", "tester", "apply", "apply_raised",
             "create_branch", "commit", "push", "push_force", "create_pr"}

\* the checkpoints of the run answered with yes (or passed under
\* --auto-approve)
Approvals(ops) == { i \in 1..Len(ops) : ops[i] = "approved" }

\* C23: in the feature pipeline a checkpoint answered with no ends the run:
\* the denial is the last entry of the run's log, the run has returned, and no
\* step follows, so no stage is invoked, no file is written, and there is no
\* branch creation, commit, push or pull request after it; and APPLY (and every
\* git operation) happens only after all five checkpoints were approved and
\* none was denied.
C23_State ==
    /\ Denied => /\ pc = "f_returned"
                 /\ Last(iter_ops) = "denied"
                 /\ Range(iter_ops) \cap {"apply", "apply_raised", "create_branch",
                                          "commit", "push", "push_force",
                                          "create_pr"} = {}
    /\ \A i \in 1..Len(iter_ops) :
          iter_ops[i] \in {"apply", "apply_raised", "create_branch", "commit",
                           "push", "push_force", "create_pr"}
             => /\ Cardinality({ k \in Approvals(iter_ops) : k < i }) = Cardinality(Gates)
                /\ ~Denied
    /\ \A i \in 1..Len(iter_ops) :
          \A g \in 1..4 :
             FeatureRank(iter_ops[i]) = g
                => Cardinality({ k \in Approvals(iter_ops) : k < i }) = g

C23_ApprovalGating ==
    /\ []C23_State
    /\ [][Denied => (disk' = disk /\ iter_ops' = iter_ops /\ pc' = pc)]_vars
    /\ [][(iter_ops' # iter_ops /\ Last(iter_ops') = "denied")
             => /\ pc \in Gates
                /\ pc' = "f_returned"
                /\ disk' = disk
                /\ Range(iter_ops') \cap GatedOps = Range(iter_ops) \cap GatedOps]_vars

C23_Witness ==
    /\ Denied
    /\ pc = "f_returned"
    /\ "tester" \in Range(iter_ops)
    /\ Cardinality(Approvals(iter_ops)) = 4

\* the changesets the Coder and the Tester of the feature pipeline can make
\* together
CoderPlusTester ==
    { [c EXCEPT !.files = c.files \o t.files] :
        c \in FeatureCoderOutputs, t \in TesterOutputs }

\* C24: the feature pipeline never invokes the Reviewer: no run has a reviewer
\* call in its log, is at a review step or holds a review decision; and the
\* changeset at the last checkpoint and at APPLY is what the Coder returned,
\* followed by the Tester's files when the Tester ran, and APPLY writes that
\* changeset.
C24_State ==
    /\ "reviewer" \notin Range(iter_ops)
    /\ pc # "review"
    /\ review = NoReview
    /\ pc \in {"f_gate_apply", "f_apply", "f_commit", "f_end"}
          => IF "tester" \in Range(iter_ops)
             THEN changes \in CoderPlusTester
             ELSE changes \in FeatureCoderOutputs

FileHeaders(prompt, path) ==
    { i \in 1..(Len(prompt) - 2) :
        prompt[i] = "--- " /\ prompt[i + 1] = path /\ prompt[i + 2] = " ---" }

\* C25: the repository files call_coder puts into the Coder's payload are
\* exactly the paths of plan.files_to_modify that are keys of the iteration's
\* snapshot, each with the content the snapshot holds for it, and no other
\* file of the snapshot; the prompt shows each of them once, with that content;
\* and the step that invokes the Coder leaves the working tree as it is.
C25_State ==
    coder_call.called =>
        /\ DOMAIN coder_call.repository_files
              = Range(plan.files_to_modify) \cap DOMAIN repo_state
        /\ \A p \in DOMAIN coder_call.repository_files :
              coder_call.repository_files[p] = repo_state[p]
        /\ \A p \in CoderPaths :
              IF p \in Range(plan.files_to_modify) \cap DOMAIN repo_state
              THEN /\ Cardinality(FileHeaders(coder_call.prompt, p)) = 1
                   /\ \A i \in FileHeaders(coder_call.prompt, p) :
                         SubSeq(coder_call.prompt, i + 3, i + 2 + Len(repo_state[p]))
                            = repo_state[p]
              ELSE FileHeaders(coder_call.prompt, p) = {}

C25_CoderScopedToPlan ==
    /\ []C25_State
    /\ [][(pc = "code") => (disk' = disk /\ repo_state' = repo_state)]_vars

C25_Witness ==
    /\ coder_call.called
    /\ plan.files_to_modify = <<"pkg/b.py", "a.py">>
    /\ DOMAIN repo_state = {"a.py", "test_a.py"}
    /\ "pkg/b.py" \in DOMAIN disk
    /\ repo_state["a.py"] # disk["a.py"]
    /\ DOMAIN coder_call.repository_files = {"a.py"}

\* how often an operation was made during the set-up
SetupCount(op) == Cardinality({ i \in 1..Len(setup_ops) : setup_ops[i] = op })

\* the set-up is over: the run is at the loop
SetupDone == pc \in {"loop", "run_tests"}

\* C26: when main starts, the run is in CI mode exactly when CI is "true", or
\* GITHUB_ACTIONS is "true", or the current branch is neither main nor master,
\* and the mode never changes afterwards.  An interactive run creates exactly
\* one branch during the set-up, before its first iteration, and looks up no
\* pull request; a CI-mode run creates no branch, and has looked up the number
\* of the existing pull request once when it enters the loop (the run-away
\* breaker may end a CI-mode run before the look-up).
C26_State ==
    /\ pc = "init" =>
          (is_ci <=> \/ environ.CI = "true"
                     \/ environ.GITHUB_ACTIONS = "true"
                     \/ current_branch \notin {"main", "master"})
    /\ "create_branch" \notin Range(iter_ops)
    /\ IF is_ci
       THEN /\ SetupCount("create_branch") = 0
            /\ current_branch # NewBranch
            /\ SetupDone => SetupCount("get_pr_number") = 1
            /\ ~SetupDone => SetupCount("get_pr_number") = 0
       ELSE /\ SetupCount("create_branch") = (IF SetupDone THEN 1 ELSE 0)
            /\ SetupDone => current_branch = NewBranch
            /\ SetupCount("get_pr_number") = 0
            /\ pr_number = None
    /\ iteration # Unbound => SetupDone

C26_ModeDetection ==
    /\ []C26_State
    /\ [][is_ci' = is_ci /\ environ' = environ]_vars

C26_Witness ==
    /\ is_ci
    /\ environ = [CI |-> "TRUE", GITHUB_ACTIONS |-> None]
    /\ current_branch = ""
    /\ pc = "run_tests"
    /\ iteration = 0
    /\ SetupCount("get_pr_number") = 1

\* the Planner of this iteration has been called and the Reviewer not yet, so
\* review and ci_status still are what the previous iteration left
PlannerCalled ==
    /\ planner_call.called
    /\ "reviewer" \notin Range(iter_ops)

\* C27: the Planner is called with previous_attempt_failed = TRUE exactly when
\* an iteration of the run came before, and that iteration ended in a Reviewer
\* rejection or in a CHECK_CI that did not find all checks passed (a query
\* without checks included); at the first call the flag is FALSE and no reason
\* is given.  The reason passed is the one of that last iteration:
\* "Reviewer rejected: " with the feedback after a rejection, "CI checks
\* failed" after CHECK_CI.  The two variables change only at those two places,
\* and the call passes them as they are.
C27_State ==
    /\ planner_call.called => (planner_call.previous_attempt_failed <=> iteration > 0)
    /\ (PlannerCalled /\ iteration = 0) =>
          /\ ~planner_call.previous_attempt_failed
          /\ planner_call.failure_reason = NoneStr
    /\ (PlannerCalled /\ iteration > 0) =>
          /\ planner_call.previous_attempt_failed
          /\ IF ~review.approved
             THEN /\ planner_call.failure_reason = <<"Reviewer rejected: ", review.feedback>>
                  /\ review \in ReviewerOutputs
             ELSE /\ planner_call.failure_reason = <<"CI checks failed">>
                  /\ ci_status.bound
                  /\ ~(ci_status.all_passed /\ ci_status.checks # <<>>)

C27_ReflectionFlag ==
    /\ []C27_State
    /\ [][(previous_attempt_failed' # previous_attempt_failed
             \/ previous_failure_reason' # previous_failure_reason)
          => /\ previous_attempt_failed'
             /\ pc' = "loop"
             /\ \/ /\ pc = "review"
                   /\ ~review'.approved
                   /\ previous_failure_reason' = <<"Reviewer rejected: ", review'.feedback>>
                \/ /\ pc = "check_ci"
                   /\ ~(ci_status'.all_passed /\ ci_status'.checks # <<>>)
                   /\ previous_failure_reason' = <<"CI checks failed">>]_vars
    /\ [][(pc' = "loop" /\ pc \in {"review", "check_ci"}) => previous_attempt_failed']_vars
    /\ [][(pc = "plan" /\ planner_call'.called)
          => /\ planner_call'.previous_attempt_failed = previous_attempt_failed
             /\ planner_call'.failure_reason = previous_failure_reason]_vars

C27_Witness ==
    /\ PlannerCalled
    /\ iteration = 2
    /\ review.approved
    /\ planner_call.failure_reason = <<"CI checks failed">>
    /\ ci_status.checks # <<>>
    /\ iteration_history[1].strategy = "s1"
    /\ disk["a.py"] = <<"a1">>
    /\ pc = "code"

\* the places of an operation in the log of the iteration
Places(op) == { i \in 1..Len(iter_ops) : iter_ops[i] = op }

\* the iteration has got past the point where the Tester is called or skipped
PastTester ==
    \/ pc \in {"review", "apply", "commit", "check_ci"}
    \/ "reviewer" \in Range(iter_ops)

\* C28: in every iteration of the repair controller the Tester is invoked
\* exactly when the iteration's plan has needs_new_tests = true: at most once,
\* after the Coder has returned and before the Reviewer is called; and in an
\* iteration without the Tester the changeset that is reviewed and applied is
\* the Coder's files, unchanged from the Coder's answer to APPLY.
C28_State ==
    /\ Cardinality(Places("tester")) <= 1
    /\ \A t \in Places("tester") :
          /\ plan.needs_new_tests
          /\ \E c \in Places("coder") : c < t
          /\ \A r \in Places("reviewer") : t < r
    /\ (PastTester /\ plan.needs_new_tests) => Places("tester") # {}
    /\ (pc = "test") => plan.needs_new_tests
    /\ (PastTester /\ Places("tester") = {}) =>
          /\ ~plan.needs_new_tests
          /\ changes.files = coder_files
          /\ changes \in CoderOutputs

C28_TesterConditional ==
    /\ []C28_State
    /\ [][(pc \in {"review", "apply", "commit", "check_ci"})
             => (changes' = changes /\ plan' = plan)]_vars
    /\ [][(pc = "apply")
             => \E refused \in RefusedWrites :
                   disk' = apply_changes(disk, changes.files, platform, refused).tree]_vars

C28_Witness ==
    /\ pc = "commit"
    /\ Places("tester") = {}
    /\ Places("reviewer") # {}
    /\ iteration = 1
    /\ iteration_history[1].strategy = "s1"
    /\ Len(iteration_history) = 2
    /\ disk["a.py"] = <<"a1">>
    /\ disk["test_a.py"] = <<"t1">>

\* C29 (as claimed): the summary reports SUCCESS exactly when the run left the
\* loop as DONE; a run stopped by the repetition guard or by the iteration cap
\* reports INCOMPLETE.
C29_SuccessOnlyWhenDone ==
    pc = "end" =>
        /\ final_status = (IF outcome = "DONE" THEN "SUCCESS" ELSE "INCOMPLETE")
        /\ outcome \in {"DONE", "ABORTED_STUCK", "ABORTED_CAP"}

\* the place of an operation in the order of an iteration's steps; 0 for the
\* note that a stage call raised
OpRank(op) ==
    CASE op = "run_tests"                  -> 1
      [] op = "planner"                    -> 2
      [] op = "coder"                      -> 3
      [] op = "tester"                     -> 4
      [] op = "reviewer"                   -> 5
      [] op \in {"apply", "apply_raised"}  -> 6
      [] op = "commit"                     -> 7
      [] op \in {"push", "push_force"}     -> 8
      [] op = "create_pr"                  -> 9
      [] op = "wait_for_ci"                -> 10
      [] op = "get_pr_status"              -> 11
      [] OTHER                             -> 0

\* the places an operation of the given place may directly follow
Predecessors(rank) ==
    CASE rank = 2  -> {1}
      [] rank = 3  -> {2}
      [] rank = 4  -> {3}
      [] rank = 5  -> {3, 4}
      [] rank = 6  -> {5}
      [] rank = 7  -> {6}
      [] rank = 8  -> {7}
      [] rank = 9  -> {8}
      [] rank = 10 -> {8, 9}
      [] rank = 11 -> {10}
      [] rank = 0  -> 2..5
      [] OTHER     -> {}

\* C30: within an iteration of the repair controller the operations occur in
\* the order run-tests, Planner, Coder, Tester, Reviewer, APPLY, commit, push,
\* (pull-request creation,) wait, CI check, each at most once, one after the
\* other: only the Tester and the pull-request creation may be left out
\* between two of them (and the test run in the first iteration of a CI-mode
\* run that fetched logs), so the Coder directly follows a Planner call that
\* returned this iteration's plan, and APPLY, commit and push follow a
\* Reviewer call that approved; a stage call that raises is the last
\* operation; and every step appends to what the iteration has done so far.
C30_State ==
    \A i \in 1..Len(iter_ops) :
        LET r == OpRank(iter_ops[i])
        IN  /\ IF i = 1
               THEN r = 1 \/ (r = 2 /\ iteration = 0 /\ is_ci /\ ci_logs # <<>>)
               ELSE OpRank(iter_ops[i - 1]) \in Predecessors(r)
            /\ r = 0 => i = Len(iter_ops)
            /\ r = 3 => /\ Len(iteration_history) = iteration + 1
                        /\ plan.strategy = iteration_history[iteration + 1].strategy
            /\ r \in 6..8 => review.approved
            /\ r = 7 => iter_ops[i - 1] = "apply"

C30_StageOrdering ==
    /\ []C30_State
    /\ [][\/ iter_ops' = <<>>
          \/ /\ Len(iter_ops') >= Len(iter_ops)
             /\ SubSeq(iter_ops', 1, Len(iter_ops)) = iter_ops]_vars
    /\ [][(pc = "review" /\ Last(iter_ops') = "reviewer" /\ ~review'.approved)
             => pc' = "loop"]_vars

C30_Witness ==
    /\ Len(iter_ops) = 11
    /\ iteration = 1
    /\ pc = "loop"

\* ------------------------------------------------------------------ C31

\* C31: the files of the working directory change only in a step of APPLY
\* (apply_changes of either controller); every other step of either controller
\* leaves the tree as it is.
C31_TreeWrittenOnlyDuringApply ==
    [][disk' # disk => pc \in {"apply", "f_apply"}]_vars

\* ------------------------------------------------------------------ C32

\* the Planner has been called in this iteration and has returned a plan
PlannerReturned ==
    \E i \in 1..Len(iter_ops) :
        /\ iter_ops[i] = "planner"
        /\ (i = Len(iter_ops) \/ iter_ops[i + 1] # "stage_raised")

\* C32: the iteration history is append-only. A step in which the Planner
\* returns appends one record, holding the number of that call and the
\* strategy it returned, and no other step changes the history; every
\* iteration that is followed by another one has called the Planner once, so
\* the history is as long as the number of Planner calls that have returned,
\* and its k-th record has the iteration index k.
C32_State ==
    /\ \A k \in 1..Len(iteration_history) : iteration_history[k].iteration = k
    /\ Len(iteration_history) =
          (IF iteration < 0 THEN 0 ELSE iteration) + (IF PlannerReturned THEN 1 ELSE 0)
    /\ PlannerReturned => iteration_history[iteration + 1].strategy = plan.strategy
    /\ Cardinality({ i \in 1..Len(iter_ops) : iter_ops[i] = "planner" }) <= 1

C32_HistoryAppendOnly ==
    /\ []C32_State
    /\ [][IF PlannerReturned' /\ ~PlannerReturned
          THEN iteration_history' =
                  Append(iteration_history,
                         [ iteration |-> Len(iteration_history) + 1,
                           strategy |-> plan'.strategy,
                           strategy_changed |-> plan'.should_strategy_change ])
          ELSE iteration_history' = iteration_history]_vars
    /\ [][iteration' # iteration =>
             /\ iteration' = iteration + 1
             /\ (iteration >= 0 => PlannerReturned)]_vars

C32_Witness ==
    /\ Len(iteration_history) = 4
    /\ iteration_history[2].strategy # iteration_history[4].strategy
    /\ pc = "code"

\* ------------------------------------------------------------------ C33

\* C33: the CI failure signal is sticky. Once ci_logs is not empty no step
\* empties it, and a CI check that does not pass leaves it not empty; while
\* it is not empty the run becomes DONE only in the step of the CI check that
\* takes its passing branch, never in a step that runs the local tests.
C33_StickySignal ==
    /\ [][ci_logs # <<>> => ci_logs' # <<>>]_vars
    /\ [][(pc = "check_ci" /\ pc' = "loop") => ci_logs' # <<>>]_vars
    /\ [][(ci_logs # <<>> /\ outcome # "DONE" /\ outcome' = "DONE") =>
             /\ pc = "check_ci"
             /\ Last(iter_ops') = "get_pr_status"
             /\ AllChecksPassed(ci_status')]_vars
    /\ [][(ci_logs # <<>> /\ pc = "run_tests") =>
             (outcome' = outcome /\ pc' \in {"plan", "crashed"})]_vars

\* the local tests have passed in an iteration that follows a failed CI check,
\* and the run has gone on to the Planner
C33_Witness ==
    /\ ci_logs # <<>>
    /\ iteration > 0
    /\ test_code = 0
    /\ pc = "plan"
    /\ ci_status.bound

\* ------------------------------------------------------------------ C34

\* this step has called create_pr
CreatesPr ==
    /\ Len(iter_ops') > Len(iter_ops)
    /\ Last(iter_ops') = "create_pr"

\* C34: a run of the repair controller creates at most one pull request.
\* create_pr is called only in a step that has pushed while pr_number was
\* None, and it leaves a number in pr_number; a known number is never
\* replaced or forgotten, so no later step creates another pull request; and
\* the CI query of an iteration is made with a known number.
C34_State ==
    /\ Cardinality({ i \in 1..Len(iter_ops) : iter_ops[i] = "create_pr" }) <= 1
    /\ \A i \in 1..Len(iter_ops) :
          /\ iter_ops[i] = "create_pr" =>
                (i > 1 /\ iter_ops[i - 1] \in {"push", "push_force"} /\ pr_number # None)
          /\ iter_ops[i] = "get_pr_status" => pr_number # None

RejectionsBeforeFirstPush == iteration

\* C35: the rejections of one run are bounded by MAX_REVIEWER_RETRIES: no
\* Coder/Reviewer cycle is started after the third rejection. Stated for the
\* runs that have not pushed, where the rejections so far can be counted: the
\* Coder is not called when three iterations have been rejected.
C35_ReviewerRetriesBounded ==
    (pc = "code" /\ first_push = None) =>
        RejectionsBeforeFirstPush < MAX_REVIEWER_RETRIES

\* ------------------------------------------- two interactive runs at once

\* two runs of controller.py, started by hand on main, in clones of the same
\* repository with the same remote
Runs == {1, 2}

\* int(time.time()): the whole seconds of the clock
Seconds(ticks) == ticks \div TicksPerSecond

\* f"agent-{int(time.time())}"
BranchName(ticks) == "agent-" \o ToString(Seconds(ticks))

\* the remote after a push of the run to the branch
Pushed(remote, branch, run) ==
    IF branch \in DOMAIN remote
    THEN [remote EXCEPT ![branch] = Append(@, run)]
    ELSE remote @@ (branch :> <<run>>)

\* the pushes of the run the remote has received
PushesOf(run) ==
    LET RECURSIVE Count(_)
        Count(bs) ==
            IF bs = {} THEN 0
            ELSE LET b == CHOOSE x \in bs : TRUE
                 IN  Cardinality({ i \in 1..Len(origin[b]) : origin[b][i] = run })
                     + Count(bs \ {b})
    IN  Count(DOMAIN origin)

InitRuns ==
    /\ pc = "unit"
    /\ DevOpsAgent({LocalEnvironment})
    /\ platform = "posix"
    /\ ControllerIdle
    /\ now = 0
    /\ run_pc = [r \in Runs |-> "init"]
    /\ branch_name = [r \in Runs |-> "main"]
    /\ origin = << >>
    /\ history_arg = <<>>
    /\ repeating_result = <<>>
    /\ claude_result = NoResult
    /\ claude_schema = "planner"
    /\ claude_return = <<>>
    /\ ApplyIdle
    /\ FeatureIdle

runsFrame == << pc, is_ci, environ, current_branch, platform, mainVars,
                repeatingVars, claudeVars, applyVars, featureVars >>

\* time passes
Tick ==
    /\ pc = "unit"
    /\ now < MaxNow
    /\ now' = now + 1
    /\ UNCHANGED << runsFrame, run_pc, branch_name, origin >>

\* devops.create_branch() of one run: git checkout -b, git push -u origin
create_branch(run) ==
    /\ pc = "unit"
    /\ run_pc[run] = "init"
    /\ LET name == BranchName(now)
       IN  /\ branch_name' = [branch_name EXCEPT ![run] = name]
           /\ origin' = Pushed(origin, name, run)
    /\ run_pc' = [run_pc EXCEPT ![run] = "loop"]
    /\ UNCHANGED << runsFrame, now >>

\* devops.push_changes(...) of one run: git push on the branch it is on
push_changes(run) ==
    /\ pc = "unit"
    /\ run_pc[run] = "loop"
    /\ PushesOf(run) <= MaxPushes
    /\ origin' = Pushed(origin, branch_name[run], run)
    /\ UNCHANGED << runsFrame, now, run_pc, branch_name >>

\* the loop of one run is left
RunEnds(run) ==
    /\ pc = "unit"
    /\ run_pc[run] = "loop"
    /\ run_pc' = [run_pc EXCEPT ![run] = "end"]
    /\ UNCHANGED << runsFrame, now, branch_name, origin >>

NextRuns ==
    \/ Tick
    \/ \E run \in Runs : create_branch(run)
    \/ \E run \in Runs : push_changes(run)
    \/ \E run \in Runs : RunEnds(run)

SpecRuns == InitRuns /\ [][NextRuns]_vars

\* ------------------------------------------------------------------ C36

\* the runs that have pushed to the branch of the remote
Pushers(branch) == { origin[branch][i] : i \in 1..Len(origin[branch]) }

\* C36: two interactive runs started at the same time are isolated: the
\* branches they create have different names whenever and in whatever order
\* they start, and no branch of the remote receives pushes of both runs.
C36_RunsIsolated ==
    /\ \A r1, r2 \in Runs :
          (r1 # r2 /\ run_pc[r1] # "init" /\ run_pc[r2] # "init")
              => branch_name[r1] # branch_name[r2]
    /\ \A branch \in DOMAIN origin : Cardinality(Pushers(branch)) <= 1

\* --------------------------- one iteration in a tree that holds controller.py

\* the repository of the controller itself: one of its modules is there, or both
SelfDisks ==
    { InitialDisk @@ [p \in D |-> <<"c0">>] : D \in (SUBSET ControllerPaths) \ { {} } }

\* what the Coder may answer there: a file of the plan, or the controller
SelfCoderOutputs ==
    CoderOutputs \cup
    { [files |-> <<[path |-> "controller.py", content |-> <<"c1">>]>>,
       commit_message |-> "fix controller"] }

\* the first iteration of an interactive run starts
InitSelf ==
    /\ pc = "run_tests"
    /\ is_ci = FALSE
    /\ environ = LocalEnvironment.environ
    /\ current_branch = NewBranch
    /\ platform = "posix"
    /\ agent_commit_count = Unbound
    /\ pr_number = None
    /\ first_commit_made = FALSE
    /\ ci_logs = <<>>
    /\ previous_attempt_failed = FALSE
    /\ previous_failure_reason = NoneStr
    /\ iteration = 0
    /\ test_code = Unbound
    /\ test_output = <<>>
    /\ disk \in SelfDisks
    /\ repo_state = << >>
    /\ plan = NoPlan
    /\ iteration_history = <<>>
    /\ changes = NoChanges
    /\ review = NoReview
    /\ ci_status = NoStatus
    /\ iter_ops = <<>>
    /\ setup_ops = <<"create_branch">>
    /\ outcome = "RUNNING"
    /\ final_status = ""
    /\ planner_call = NoCall
    /\ tester_prompt = <<>>
    /\ coder_files = <<>>
    /\ coder_call = NoCoderCall
    /\ auto_merge = FALSE
    /\ first_push = None
    /\ RunsIdle
    /\ history_arg = <<>>
    /\ repeating_result = <<>>
    /\ claude_result = NoResult
    /\ claude_schema = "planner"
    /\ claude_return = <<>>
    /\ ApplyIdle
    /\ FeatureIdle

\* the iteration up to APPLY
NextSelf ==
    \/ RunTests
    \/ StageFails
    \/ CallPlanner
    \/ CallCoderFrom(SelfCoderOutputs)
    \/ CallTester
    \/ CallReviewer
    \/ ApplyChanges

SpecSelf == InitSelf /\ [][NextSelf]_vars

\* ------------------------------------------------------------------ C37

\* C37: the controller does not modify itself. No file whose path contains
\* "controller" is among the collected files or in what call_coder passes on,
\* and no step of the repair controller changes or creates such a file.
C37_NoSelfModification ==
    /\ [](/\ DOMAIN repo_state \cap ControllerPaths = {}
          /\ DOMAIN coder_call.repository_files \cap ControllerPaths = {})
    /\ [][\A p \in ControllerPaths :
             /\ p \in DOMAIN disk' => p \in DOMAIN disk
             /\ p \in DOMAIN disk => disk'[p] = disk[p]]_vars

\* ------------------------------------------------------------------ C38

\* C38: a run of the feature pipeline started with --ci-mode, with or without
\* --auto-approve, reads no interactive input at any step.
C38_CiModeNonInteractive ==
    args.ci_mode => Range(iter_ops) \cap {"input", "input_raised"} = {}

\* ------------------------------------------------------------------ C39

\* the tree in which the File Changes before the k-th one are written over
\* the given tree and nothing else is touched
WrittenBefore(tree, files, k) ==
    LET written == { files[i].path : i \in 1..(k - 1) }
        last(p) == CHOOSE i \in 1..(k - 1) :
                      /\ files[i].path = p
                      /\ \A j \in (i + 1)..(k - 1) : files[j].path # p
    IN  [ p \in DOMAIN tree \cup written |->
            IF p \in written THEN encode(files[last(p)].content, platform)
            ELSE tree[p] ]

\* C39: APPLY has no rollback. When a write of the changeset fails, the files
\* written before it hold their new content and every other file, the failing
\* one and those after it included, is as it was; the run ends there, so the
\* changeset is neither committed nor pushed.
C39_State ==
    /\ (iter_ops # <<>> /\ Last(iter_ops) = "apply_raised") =>
          /\ pc = "crashed"
          /\ Range(iter_ops) \cap {"apply", "commit", "push", "push_force",
                                   "create_pr"} = {}
          /\ \E k \in 1..Len(changes.files) :
                disk = WrittenBefore(repo_state, changes.files, k)
    /\ pc = "apply" =>
          \A refused \in RefusedWrites :
              LET failing == { i \in 1..Len(changes.files) :
                                  changes.files[i].path \in refused }
                  first   == CHOOSE k \in failing : \A i \in failing : k <= i
                  applied == apply_changes(disk, changes.files, platform, refused)
              IN  IF failing = {} THEN ~applied.raised
                  ELSE /\ applied.raised
                       /\ applied.tree = WrittenBefore(disk, changes.files, first)

C39_NoRollback ==
    /\ []C39_State
    /\ [][(pc = "apply" /\ pc' = "crashed") =>
             /\ Last(iter_ops') = "apply_raised"
             /\ first_push' = first_push
             /\ \E k \in 1..Len(changes.files) :
                   disk' = WrittenBefore(disk, changes.files, k)]_vars
    /\ [][pc # "crashed"]_vars

\* the write of the second file failed after the first was written
C39_Witness ==
    /\ pc = "crashed"
    /\ Last(iter_ops) = "apply_raised"
    /\ Len(changes.files) = 2
    /\ disk = WrittenBefore(repo_state, changes.files, 2)
    /\ disk # repo_state
    /\ disk["test_a.py"] = <<"t0">>

====
